---------------------------- MODULE Spec2Model ----------------------------
(***************************************************************************)
(* A model of the DNS resource-record codec and record-set algebra of      *)
(* package rr (src/rr/rr.go).                                              *)
(*                                                                         *)
(* Byte buffers are sequences of 0..255.  A Go cursor `pos` is 0-based, so *)
(* the Go byte b[p] is b[p+1] here.  A domain name is its sequence of      *)
(* labels (each a sequence of bytes); the root name "." is <<>>.           *)
(* A decode routine returns [err, pos, v]: err = "" on success, pos the    *)
(* cursor as the routine leaves it, v the value as the routine leaves it.  *)
(***************************************************************************)
EXTENDS Integers, Sequences, FiniteSets, TLC

VARIABLES
    sent,      \* the records encoded into wb so far (by index), with offsets
    wb,        \* the dns.Wirebuf being written: Buf, compression state
    pos,       \* the decode cursor into wb.Buf
    got,       \* results of the RR.Decode calls made so far
    ea, eb,    \* the two records handed to RR.Equal
    eres,      \* "none", or the result of RR.Equal(ea, eb)
    r,         \* the receiver record set of a set operation
    incoming,  \* the argument record set of a set operation
    res,       \* the last set operation and what it returned
    lx,        \* the lexer: the lexStackItem of the active source
    calls      \* the calls made on the lexer so far and what they did

vars == <<sent, wb, pos, got, ea, eb, eres, r, incoming, res, lx, calls>>

codecVars == <<sent, wb, pos, got>>
equalVars == <<ea, eb, eres>>
setVars   == <<r, incoming, res>>
lexVars   == <<lx, calls>>

---------------------------------------------------------------------------
(* Bounds of the model.                                                    *)

\* Records written back to back into one buffer in SpecStream.
MaxRecs == 2
\* Longest receiver record set in SpecSet.
MaxSetLen == 3
\* Longest argument record set in SpecSet.
MaxIncoming == 2

---------------------------------------------------------------------------
(* Bytes and fixed-width integers.                                         *)

Min(a, b) == IF a < b THEN a ELSE b

\* n distinguishable bytes: a shift by one position changes the sequence.
Fill(n, seed) == [i \in 1..n |-> (i * 7 + seed) % 256]

\* Go's b[lo:hi] for 0-based lo, hi.
Slice(b, lo, hi) == SubSeq(b, lo + 1, hi)

\* byte(n): the low eight bits.
ToByte(n) == n % 256

\* uint16(n): Go's integer conversion keeps the low bits.
ToU16(n) == n % 65536

\* A uint32 is held as its two 16-bit halves <<hi, lo>>: the code only
\* stores, compares, encodes and decodes such values.
U32(hi, lo) == <<hi, lo>>
Zero32 == U32(0, 0)

\* uint32(n) of an int32 n, and int32(u) of a 32-bit pattern u.
I32ToU32(n) == U32((n \div 65536) % 65536, n % 65536)
ToI32(u)    == IF u[1] >= 32768 THEN (u[1] - 65536) * 65536 + u[2]
               ELSE u[1] * 65536 + u[2]

Ok(v, p)        == [err |-> "", pos |-> p, v |-> v]
Fail(msg, v, p) == [err |-> msg, pos |-> p, v |-> v]

---------------------------------------------------------------------------
(* The wire primitive codec of package dns (Wirebuf, Octet, Octets2,       *)
(* Octets4, CharString, DomainName).  Its source is not part of src/; it   *)
(* is modelled from the specification's description: big-endian fixed      *)
(* width integers, one-byte length-prefixed character strings and          *)
(* length-prefixed labels with optional compression pointers.              *)

NewWirebuf == [Buf |-> <<>>, zip |-> TRUE, names |-> <<>>]

Append1(w, bytes) == [w EXCEPT !.Buf = @ \o bytes]

DisableCompression(w) == [w EXCEPT !.zip = FALSE]
EnableCompression(w)  == [w EXCEPT !.zip = TRUE]

OctetEncode(n, w)   == Append1(w, <<ToByte(n)>>)
Octets2Encode(n, w) == Append1(w, <<ToByte(ToU16(n) \div 256), ToByte(n)>>)
Octets4Encode(u, w) ==
    Append1(w, <<ToByte(u[1] \div 256), ToByte(u[1]),
                 ToByte(u[2] \div 256), ToByte(u[2])>>)

OctetDecode(b, p, old) ==
    IF p + 1 > Len(b) THEN Fail("Octet: buffer underflow", old, p)
    ELSE Ok(b[p + 1], p + 1)

Octets2Decode(b, p, old) ==
    IF p + 2 > Len(b) THEN Fail("Octets2: buffer underflow", old, p)
    ELSE Ok(b[p + 1] * 256 + b[p + 2], p + 2)

Octets4Decode(b, p, old) ==
    IF p + 4 > Len(b) THEN Fail("Octets4: buffer underflow", old, p)
    ELSE Ok(U32(b[p + 1] * 256 + b[p + 2], b[p + 3] * 256 + b[p + 4]), p + 4)

\* One <character-string>: a length byte, then the bytes.
CharStringEncode(s, w) == Append1(w, <<ToByte(Len(s))>> \o s)

CharStringDecode(b, p, old) ==
    IF p + 1 > Len(b) THEN Fail("CharString: buffer underflow", old, p)
    ELSE LET n == b[p + 1]
         IN  IF p + 1 + n > Len(b)
             THEN Fail("CharString: buffer underflow", old, p)
             ELSE Ok(Slice(b, p + 1, p + 1 + n), p + 1 + n)

\* The pairs <<suffix, offset>> a Wirebuf remembers are kept as a sequence.
NameOffset(w, name) ==
    LET hits == {i \in DOMAIN w.names : w.names[i][1] = name}
    IN  IF hits = {} THEN -1
        ELSE w.names[CHOOSE i \in hits : \A j \in hits : i <= j][2]

RECURSIVE DomainNameEncode(_, _)
DomainNameEncode(name, w) ==
    IF name = <<>> THEN Append1(w, <<0>>)
    ELSE LET off == NameOffset(w, name)
         IN  IF w.zip /\ off >= 0
             THEN Append1(w, <<192 + (off \div 256), off % 256>>)
             ELSE LET here == Len(w.Buf)
                      w1 == [Buf   |-> w.Buf \o <<Len(Head(name))>> \o Head(name),
                             zip   |-> w.zip,
                             names |-> IF w.zip /\ off < 0 /\ here < 16384
                                       THEN Append(w.names, <<name, here>>)
                                       ELSE w.names]
                  IN  DomainNameEncode(Tail(name), w1)

\* The name stored at offset p: its labels and the offset just after it.
RECURSIVE NameAt(_, _)
NameAt(b, p) ==
    IF p + 1 > Len(b) THEN [err |-> "DomainName: buffer underflow"]
    ELSE LET c == b[p + 1]
         IN  IF c = 0 THEN [err |-> "", labels |-> <<>>, end |-> p + 1]
             ELSE IF c >= 192
             THEN IF p + 2 > Len(b)
                  THEN [err |-> "DomainName: buffer underflow"]
                  ELSE LET t == (c - 192) * 256 + b[p + 2]
                       IN  IF t >= p
                           THEN [err |-> "DomainName: bad pointer"]
                           ELSE LET n == NameAt(b, t)
                                IN  IF n.err # "" THEN n
                                    ELSE [n EXCEPT !.end = p + 2]
             ELSE IF c >= 64 THEN [err |-> "DomainName: bad label"]
             ELSE IF p + 1 + c > Len(b)
                  THEN [err |-> "DomainName: buffer underflow"]
                  ELSE LET n == NameAt(b, p + 1 + c)
                       IN  IF n.err # "" THEN n
                           ELSE [n EXCEPT
                                   !.labels = <<Slice(b, p + 1, p + 1 + c)>> \o @]

DomainNameDecode(b, p, old) ==
    LET n == NameAt(b, p)
    IN  IF n.err # "" THEN Fail(n.err, old, p) ELSE Ok(n.labels, n.end)

\* strings.ToLower on a name: letter by letter.
LowerByte(c) == IF c >= 65 /\ c <= 90 THEN c + 32 ELSE c
ToLower(name) == [i \in DOMAIN name |->
                    [j \in DOMAIN name[i] |-> LowerByte(name[i][j])]]

---------------------------------------------------------------------------
(* Type and class codes, hash algorithms.                                  *)

TYPE_A          == 1
TYPE_NS         == 2
TYPE_CNAME      == 5
TYPE_SOA        == 6
TYPE_PTR        == 12
TYPE_MX         == 15
TYPE_TXT        == 16
TYPE_AAAA       == 28
TYPE_DS         == 43
TYPE_RRSIG      == 46
TYPE_DNSKEY     == 48
TYPE_NSEC3      == 50
TYPE_NSEC3PARAM == 51
TYPE_NODATA     == 65280
TYPE_NXDOMAIN   == 65281

CLASS_IN == 1
CLASS_CH == 3

HashAlgorithmSHA1 == 1

\* const asserts = false: no assertion of the package is compiled in.
asserts == FALSE

---------------------------------------------------------------------------
(* net.IP as the package uses it.                                          *)

v4InV6Prefix == <<0, 0, 0, 0, 0, 0, 0, 0, 0, 0, 255, 255>>

\* net.IPv4(a, b, c, d): the 16-byte form.
IPv4(a, b, c, d) == v4InV6Prefix \o <<a, b, c, d>>

\* net.IP.To4: the 4-byte form, or nil (<<>>) when ip is no IPv4 address.
To4(ip) ==
    IF Len(ip) = 4 THEN ip
    ELSE IF Len(ip) = 16 /\ SubSeq(ip, 1, 12) = v4InV6Prefix
         THEN SubSeq(ip, 13, 16)
         ELSE <<>>

\* net.IP.To16: the 16-byte form, or nil.
To16(ip) ==
    IF Len(ip) = 4 THEN IPv4(ip[1], ip[2], ip[3], ip[4])
    ELSE IF Len(ip) = 16 THEN ip
         ELSE <<>>

\* net.IP.String, up to the text form: dotted quad for an IPv4 address in
\* either form, the IPv6 text for other 16-byte addresses, "?" otherwise.
IPString(ip) ==
    IF To4(ip) # <<>> THEN <<"v4", To4(ip)>>
    ELSE IF Len(ip) = 16 THEN <<"v6", ip>>
         ELSE <<"?">>

---------------------------------------------------------------------------
(* RDATA variants: Encode appends to a Wirebuf, Decode reads from b at p.  *)

\* panic(...) inside Encode: the call ends there, the buffer as it is.
Panic(w, msg) == w @@ [panic |-> msg]

Panicked(w) == "panic" \in DOMAIN w

ip4Encode(d, w) ==
    LET b4 == To4(d)
    IN  IF asserts /\ b4 = <<>> THEN Panic(w, "is not an IPv4 address")
        ELSE Append1(w, b4)

ip4Decode(b, p, old) ==
    IF p + 4 > Len(b) THEN Fail("ip4.Decode() - buffer underflow", old, p)
    ELSE Ok(IPv4(b[p + 1], b[p + 2], b[p + 3], b[p + 4]), p + 4)

ip6Encode(d, w) ==
    LET b16 == To16(d)
    IN  IF asserts /\ b16 = <<>> THEN Panic(w, "is not an IPv6 address")
        ELSE Append1(w, b16)

ip6Decode(b, p, old) ==
    IF p + 16 > Len(b) THEN Fail("ip6.Decode() - buffer underflow", old, p)
    ELSE Ok(Slice(b, p, p + 16), p + 16)

AEncode(d, w) == ip4Encode(d.Address, w)

ADecode(b, p) ==
    LET a == ip4Decode(b, p, <<>>)
    IN  [a EXCEPT !.v = [k |-> "A", Address |-> a.v]]

AAAAEncode(d, w) == ip6Encode(d.Address, w)

AAAADecode(b, p) ==
    LET a == ip6Decode(b, p, <<>>)
    IN  [a EXCEPT !.v = [k |-> "AAAA", Address |-> a.v]]

CNAMEEncode(c, w) == DomainNameEncode(c.Name, w)

CNAMEDecode(b, p) ==
    LET n == DomainNameDecode(b, p, <<>>)
    IN  [n EXCEPT !.v = [k |-> "CNAME", Name |-> n.v]]

DNSKEYEncode(d, w) ==
    Append1(OctetEncode(d.Algorithm,
                OctetEncode(d.Protocol, Octets2Encode(d.Flags, w))), d.Key)

\* A DNSKEY.Decode that takes an empty rest of the buffer as the key.
DNSKEYDecodeEmptyKey(b, p) ==
    LET z  == [k |-> "DNSKEY", Flags |-> 0, Protocol |-> 0, Algorithm |-> 0,
               Key |-> <<>>]
        f1 == Octets2Decode(b, p, 0)
        d1 == [z EXCEPT !.Flags = f1.v]
        f2 == OctetDecode(b, f1.pos, 0)
        d2 == [d1 EXCEPT !.Protocol = f2.v]
        f3 == OctetDecode(b, f2.pos, 0)
        d3 == [d2 EXCEPT !.Algorithm = f3.v]
        n  == Len(b) - f3.pos
    IN  IF f1.err # "" THEN Fail(f1.err, d1, f1.pos)
        ELSE IF f2.err # "" THEN Fail(f2.err, d2, f2.pos)
        ELSE IF f3.err # "" THEN Fail(f3.err, d3, f3.pos)
        ELSE IF n < 0 THEN Fail("(*DNSKEY).Decode: no key data", d3, f3.pos)
        ELSE Ok([d3 EXCEPT !.Key = Slice(b, f3.pos, Len(b))], f3.pos + n)

DNSKEYDecode(b, p) ==
    LET z  == [k |-> "DNSKEY", Flags |-> 0, Protocol |-> 0, Algorithm |-> 0,
               Key |-> <<>>]
        f1 == Octets2Decode(b, p, 0)
        d1 == [z EXCEPT !.Flags = f1.v]
        f2 == OctetDecode(b, f1.pos, 0)
        d2 == [d1 EXCEPT !.Protocol = f2.v]
        f3 == OctetDecode(b, f2.pos, 0)
        d3 == [d2 EXCEPT !.Algorithm = f3.v]
        n  == Len(b) - f3.pos
    IN  IF f1.err # "" THEN Fail(f1.err, d1, f1.pos)
        ELSE IF f2.err # "" THEN Fail(f2.err, d2, f2.pos)
        ELSE IF f3.err # "" THEN Fail(f3.err, d3, f3.pos)
        ELSE IF n <= 0 THEN Fail("(*DNSKEY).Decode: no key data", d3, f3.pos)
        ELSE Ok([d3 EXCEPT !.Key = Slice(b, f3.pos, Len(b))], f3.pos + n)

DSEncode(d, w) ==
    Append1(OctetEncode(d.DigestType,
                OctetEncode(d.AlgorithmType, Octets2Encode(d.KeyTag, w))),
            d.Digest)

\* A DS.Decode that takes 16 bytes of digest where SHA-1 has 20; the round
\* trip of a DS record tells it from DSDecode.
DSDecodeShortDigest(b, p) ==
    LET z  == [k |-> "DS", KeyTag |-> 0, AlgorithmType |-> 0, DigestType |-> 0,
               Digest |-> <<>>]
        f1 == Octets2Decode(b, p, 0)
        d1 == [z EXCEPT !.KeyTag = f1.v]
        f2 == OctetDecode(b, f1.pos, 0)
        d2 == [d1 EXCEPT !.AlgorithmType = f2.v]
        f3 == OctetDecode(b, f2.pos, 0)
        d3 == [d2 EXCEPT !.DigestType = f3.v]
        end == f3.pos + 16
    IN  IF f1.err # "" THEN Fail(f1.err, d1, f1.pos)
        ELSE IF f2.err # "" THEN Fail(f2.err, d2, f2.pos)
        ELSE IF f3.err # "" THEN Fail(f3.err, d3, f3.pos)
        ELSE IF d3.DigestType # HashAlgorithmSHA1
             THEN Fail("unsupported digest type", d3, f3.pos)
        ELSE IF end > Len(b) THEN Fail("DS.Decode - buffer underflow", d3, f3.pos)
        ELSE Ok([d3 EXCEPT !.Digest = Slice(b, f3.pos, end)], end)

\* A DS.Decode that takes 20 bytes of digest whatever the digest type.
DSDecodeAnyType(b, p) ==
    LET z  == [k |-> "DS", KeyTag |-> 0, AlgorithmType |-> 0, DigestType |-> 0,
               Digest |-> <<>>]
        f1 == Octets2Decode(b, p, 0)
        d1 == [z EXCEPT !.KeyTag = f1.v]
        f2 == OctetDecode(b, f1.pos, 0)
        d2 == [d1 EXCEPT !.AlgorithmType = f2.v]
        f3 == OctetDecode(b, f2.pos, 0)
        d3 == [d2 EXCEPT !.DigestType = f3.v]
        end == f3.pos + 20
    IN  IF f1.err # "" THEN Fail(f1.err, d1, f1.pos)
        ELSE IF f2.err # "" THEN Fail(f2.err, d2, f2.pos)
        ELSE IF f3.err # "" THEN Fail(f3.err, d3, f3.pos)
        ELSE IF FALSE
             THEN Fail("unsupported digest type", d3, f3.pos)
        ELSE IF end > Len(b) THEN Fail("DS.Decode - buffer underflow", d3, f3.pos)
        ELSE Ok([d3 EXCEPT !.Digest = Slice(b, f3.pos, end)], end)

DSDecode(b, p) ==
    LET z  == [k |-> "DS", KeyTag |-> 0, AlgorithmType |-> 0, DigestType |-> 0,
               Digest |-> <<>>]
        f1 == Octets2Decode(b, p, 0)
        d1 == [z EXCEPT !.KeyTag = f1.v]
        f2 == OctetDecode(b, f1.pos, 0)
        d2 == [d1 EXCEPT !.AlgorithmType = f2.v]
        f3 == OctetDecode(b, f2.pos, 0)
        d3 == [d2 EXCEPT !.DigestType = f3.v]
        end == f3.pos + 20
    IN  IF f1.err # "" THEN Fail(f1.err, d1, f1.pos)
        ELSE IF f2.err # "" THEN Fail(f2.err, d2, f2.pos)
        ELSE IF f3.err # "" THEN Fail(f3.err, d3, f3.pos)
        ELSE IF d3.DigestType # HashAlgorithmSHA1
             THEN Fail("unsupported digest type", d3, f3.pos)
        ELSE IF end > Len(b) THEN Fail("DS.Decode - buffer underflow", d3, f3.pos)
        ELSE Ok([d3 EXCEPT !.Digest = Slice(b, f3.pos, end)], end)

MXEncode(d, w) == DomainNameEncode(d.Exchange, Octets2Encode(d.Preference, w))

MXDecode(b, p) ==
    LET z  == [k |-> "MX", Preference |-> 0, Exchange |-> <<>>]
        f1 == Octets2Decode(b, p, 0)
        d1 == [z EXCEPT !.Preference = f1.v]
        f2 == DomainNameDecode(b, f1.pos, <<>>)
    IN  IF f1.err # "" THEN Fail(f1.err, d1, f1.pos)
        ELSE [f2 EXCEPT !.v = [d1 EXCEPT !.Exchange = f2.v]]

NODATAEncode(d, w) == Octets2Encode(d.Type, w)

NODATADecode(b, p) ==
    LET t == Octets2Decode(b, p, 0)
    IN  [t EXCEPT !.v = [k |-> "NODATA", Type |-> t.v]]

NXDOMAINEncode(d, w) == w

NXDOMAINDecode(b, p) == Ok([k |-> "NXDOMAIN"], p)

NSEncode(d, w) == DomainNameEncode(d.NSDName, w)

NSDecode(b, p) ==
    LET n == DomainNameDecode(b, p, <<>>)
    IN  [n EXCEPT !.v = [k |-> "NS", NSDName |-> n.v]]

\* The four NSEC3PARAM fields, shared by NSEC3PARAM and the embedding NSEC3.
ParamEncode(d, w) ==
    LET w1 == Octets2Encode(d.Iterations,
                  OctetEncode(d.Flags, OctetEncode(d.HashAlgorithm, w)))
    IN  IF asserts /\ Len(d.Salt) > 255 THEN Panic(w1, "internal error")
        ELSE Append1(OctetEncode(Len(d.Salt), w1), d.Salt)

ParamDecode(b, p, z) ==
    LET f1 == OctetDecode(b, p, 0)
        d1 == [z EXCEPT !.HashAlgorithm = f1.v]
        f2 == OctetDecode(b, f1.pos, 0)
        d2 == [d1 EXCEPT !.Flags = f2.v]
        f3 == Octets2Decode(b, f2.pos, 0)
        d3 == [d2 EXCEPT !.Iterations = f3.v]
        f4 == OctetDecode(b, f3.pos, 0)
        next == f4.pos + f4.v
    IN  IF f1.err # "" THEN Fail(f1.err, d1, f1.pos)
        ELSE IF f2.err # "" THEN Fail(f2.err, d2, f2.pos)
        ELSE IF f3.err # "" THEN Fail(f3.err, d3, f3.pos)
        ELSE IF f4.err # "" THEN Fail(f4.err, d3, f4.pos)
        ELSE IF next > Len(b)
             THEN Fail("NSEC3PARAM.Decode() - buffer underflow", d3, f4.pos)
        ELSE Ok([d3 EXCEPT !.Salt = Slice(b, f4.pos, next)], next)

NSEC3PARAMEncode(d, w) == ParamEncode(d, w)

NSEC3PARAMDecode(b, p) ==
    ParamDecode(b, p, [k |-> "NSEC3PARAM", HashAlgorithm |-> 0, Flags |-> 0,
                       Iterations |-> 0, Salt |-> <<>>])

NSEC3Encode(d, w) ==
    Append1(Append1(Octets2Encode(Len(d.NextHashedOwnerName), ParamEncode(d, w)),
                    d.NextHashedOwnerName),
            d.TypeBitMaps)

NSEC3Decode(b, p) ==
    LET z  == [k |-> "NSEC3", HashAlgorithm |-> 0, Flags |-> 0, Iterations |-> 0,
               Salt |-> <<>>, NextHashedOwnerName |-> <<>>, TypeBitMaps |-> <<>>]
        f1 == ParamDecode(b, p, z)
        f2 == Octets2Decode(b, f1.pos, 0)
        in == f2.v
        d2 == [f1.v EXCEPT !.NextHashedOwnerName = Slice(b, f2.pos, f2.pos + in)]
        end == Len(b)
    IN  IF f1.err # "" THEN f1
        ELSE IF f2.err # "" THEN Fail(f2.err, f1.v, f2.pos)
        ELSE IF f2.pos + in > Len(b)
             THEN Fail("rr.*NSEC3.Decode - buffer underflow", f1.v, f2.pos)
        ELSE Ok([d2 EXCEPT !.TypeBitMaps = Slice(b, f2.pos + in, end)], end)

PTREncode(d, w) == DomainNameEncode(d.PTRDName, w)

PTRDecode(b, p) ==
    LET n == DomainNameDecode(b, p, <<>>)
    IN  [n EXCEPT !.v = [k |-> "PTR", PTRDName |-> n.v]]

\* RDATA: the bytes of an unknown type.
RDATAEncode(d, w) == Append1(w, d.Bytes)

RDATADecode(b, p) ==
    LET n == Len(b) - p
    IN  Ok([k |-> "RDATA", Bytes |-> Slice(b, p, Len(b))], p + n)

RRSIGEncode(d, w) ==
    LET w1 == Octets2Encode(d.KeyTag,
                Octets4Encode(d.Inception,
                  Octets4Encode(d.Expiration,
                    Octets4Encode(I32ToU32(d.TTL),
                      OctetEncode(d.Labels,
                        OctetEncode(d.AlgorithmType,
                          Octets2Encode(d.Type, w)))))))
        w2 == EnableCompression(DomainNameEncode(d.Name, DisableCompression(w1)))
    IN  Append1(w2, d.Signature)

RRSIGDecode(b, p) ==
    LET z  == [k |-> "RRSIG", Type |-> 0, AlgorithmType |-> 0, Labels |-> 0,
               TTL |-> 0, Expiration |-> Zero32, Inception |-> Zero32,
               KeyTag |-> 0,
               Name |-> <<>>, Signature |-> <<>>]
        f1 == Octets2Decode(b, p, 0)
        d1 == [z EXCEPT !.Type = f1.v]
        f2 == OctetDecode(b, f1.pos, 0)
        d2 == [d1 EXCEPT !.AlgorithmType = f2.v]
        f3 == OctetDecode(b, f2.pos, 0)
        d3 == [d2 EXCEPT !.Labels = f3.v]
        f4 == Octets4Decode(b, f3.pos, Zero32)
        d4 == [d3 EXCEPT !.TTL = ToI32(f4.v)]
        f5 == Octets4Decode(b, f4.pos, Zero32)
        d5 == [d4 EXCEPT !.Expiration = f5.v]
        f6 == Octets4Decode(b, f5.pos, Zero32)
        d6 == [d5 EXCEPT !.Inception = f6.v]
        f7 == Octets2Decode(b, f6.pos, 0)
        d7 == [d6 EXCEPT !.KeyTag = f7.v]
        f8 == DomainNameDecode(b, f7.pos, <<>>)
        d8 == [d7 EXCEPT !.Name = f8.v]
        n  == Len(b) - f8.pos
    IN  IF f1.err # "" THEN Fail(f1.err, d1, f1.pos)
        ELSE IF f2.err # "" THEN Fail(f2.err, d2, f2.pos)
        ELSE IF f3.err # "" THEN Fail(f3.err, d3, f3.pos)
        ELSE IF f4.err # "" THEN Fail(f4.err, d3, f4.pos)
        ELSE IF f5.err # "" THEN Fail(f5.err, d5, f5.pos)
        ELSE IF f6.err # "" THEN Fail(f6.err, d6, f6.pos)
        ELSE IF f7.err # "" THEN Fail(f7.err, d7, f7.pos)
        ELSE IF f8.err # "" THEN Fail(f8.err, d8, f8.pos)
        ELSE IF n <= 0 THEN Fail("(*RRSIG).Decode: no signature data", d8, f8.pos)
        ELSE Ok([d8 EXCEPT !.Signature = Slice(b, f8.pos, Len(b))], f8.pos + n)

SOAEncode(d, w) ==
    Octets4Encode(d.Minimum,
      Octets4Encode(d.Expire,
        Octets4Encode(d.Retry,
          Octets4Encode(d.Refresh,
            Octets4Encode(d.Serial,
              DomainNameEncode(d.RName, DomainNameEncode(d.MName, w)))))))

\* An SOA.Decode that drops the error of the Minimum field like the errors
\* of the four fields before it.
SOADecodeUnchecked(b, p) ==
    LET z  == [k |-> "SOA", MName |-> <<>>, RName |-> <<>>, Serial |-> Zero32,
               Refresh |-> Zero32, Retry |-> Zero32, Expire |-> Zero32,
               Minimum |-> Zero32]
        f1 == DomainNameDecode(b, p, <<>>)
        d1 == [z EXCEPT !.MName = f1.v]
        f2 == DomainNameDecode(b, f1.pos, <<>>)
        d2 == [d1 EXCEPT !.RName = f2.v]
        f3 == Octets4Decode(b, f2.pos, Zero32)
        d3 == [d2 EXCEPT !.Serial = f3.v]
        f4 == Octets4Decode(b, f3.pos, Zero32)
        d4 == [d3 EXCEPT !.Refresh = f4.v]
        f5 == Octets4Decode(b, f4.pos, Zero32)
        d5 == [d4 EXCEPT !.Retry = f5.v]
        f6 == Octets4Decode(b, f5.pos, Zero32)
        d6 == [d5 EXCEPT !.Expire = f6.v]
        f7 == Octets4Decode(b, f6.pos, Zero32)
    IN  IF f1.err # "" THEN Fail(f1.err, d1, f1.pos)
        ELSE IF f2.err # "" THEN Fail(f2.err, d2, f2.pos)
        ELSE Ok([d6 EXCEPT !.Minimum = f7.v], f7.pos)

\* The results of the Serial, Refresh, Retry and Expire decodes are dropped:
\* each `if` tests the err left by the RName decode, which is nil there.
SOADecode(b, p) ==
    LET z  == [k |-> "SOA", MName |-> <<>>, RName |-> <<>>, Serial |-> Zero32,
               Refresh |-> Zero32, Retry |-> Zero32, Expire |-> Zero32,
               Minimum |-> Zero32]
        f1 == DomainNameDecode(b, p, <<>>)
        d1 == [z EXCEPT !.MName = f1.v]
        f2 == DomainNameDecode(b, f1.pos, <<>>)
        d2 == [d1 EXCEPT !.RName = f2.v]
        f3 == Octets4Decode(b, f2.pos, Zero32)
        d3 == [d2 EXCEPT !.Serial = f3.v]
        f4 == Octets4Decode(b, f3.pos, Zero32)
        d4 == [d3 EXCEPT !.Refresh = f4.v]
        f5 == Octets4Decode(b, f4.pos, Zero32)
        d5 == [d4 EXCEPT !.Retry = f5.v]
        f6 == Octets4Decode(b, f5.pos, Zero32)
        d6 == [d5 EXCEPT !.Expire = f6.v]
        f7 == Octets4Decode(b, f6.pos, Zero32)
    IN  IF f1.err # "" THEN Fail(f1.err, d1, f1.pos)
        ELSE IF f2.err # "" THEN Fail(f2.err, d2, f2.pos)
        ELSE [f7 EXCEPT !.v = [d6 EXCEPT !.Minimum = f7.v]]

TXTEncode(t, w) == CharStringEncode(t.S, w)

\* The loop of TXT.Decode: chunks are read and concatenated up to len(b).
RECURSIVE TXTChunks(_, _, _)
TXTChunks(b, p, s) ==
    IF ~(p < Len(b)) THEN Ok(s, p)
    ELSE LET part == CharStringDecode(b, p, <<>>)
         IN  IF part.err # "" THEN Fail(part.err, <<>>, part.pos)
             ELSE TXTChunks(b, part.pos, s \o part.v)

TXTDecode(b, p) ==
    LET c == TXTChunks(b, p, <<>>)
    IN  [c EXCEPT !.v = [k |-> "TXT", S |-> c.v]]

---------------------------------------------------------------------------
(* The record envelope.                                                    *)

\* rr.RData.Encode(b): the method of the variant the record carries.
RDataEncode(d, w) ==
    CASE d.k = "A"          -> AEncode(d, w)
      [] d.k = "AAAA"       -> AAAAEncode(d, w)
      [] d.k = "CNAME"      -> CNAMEEncode(d, w)
      [] d.k = "DNSKEY"     -> DNSKEYEncode(d, w)
      [] d.k = "DS"         -> DSEncode(d, w)
      [] d.k = "MX"         -> MXEncode(d, w)
      [] d.k = "NODATA"     -> NODATAEncode(d, w)
      [] d.k = "NXDOMAIN"   -> NXDOMAINEncode(d, w)
      [] d.k = "NS"         -> NSEncode(d, w)
      [] d.k = "NSEC3"      -> NSEC3Encode(d, w)
      [] d.k = "NSEC3PARAM" -> NSEC3PARAMEncode(d, w)
      [] d.k = "PTR"        -> PTREncode(d, w)
      [] d.k = "RRSIG"      -> RRSIGEncode(d, w)
      [] d.k = "SOA"        -> SOAEncode(d, w)
      [] d.k = "TXT"        -> TXTEncode(d, w)
      [] d.k = "RDATA"      -> RDATAEncode(d, w)

\* The switch of RR.Decode: the variant a type code selects.
VariantOf(type) ==
    CASE type = TYPE_A          -> "A"
      [] type = TYPE_AAAA       -> "AAAA"
      [] type = TYPE_CNAME      -> "CNAME"
      [] type = TYPE_DNSKEY     -> "DNSKEY"
      [] type = TYPE_DS         -> "DS"
      [] type = TYPE_MX         -> "MX"
      [] type = TYPE_NODATA     -> "NODATA"
      [] type = TYPE_NS         -> "NS"
      [] type = TYPE_NXDOMAIN   -> "NXDOMAIN"
      [] type = TYPE_NSEC3      -> "NSEC3"
      [] type = TYPE_NSEC3PARAM -> "NSEC3PARAM"
      [] type = TYPE_PTR        -> "PTR"
      [] type = TYPE_RRSIG      -> "RRSIG"
      [] type = TYPE_SOA        -> "SOA"
      [] type = TYPE_TXT        -> "TXT"
      [] OTHER                  -> "RDATA"

\* rr.RData.Decode(b, pos) of the variant just constructed.
RDataDecode(k, b, p) ==
    CASE k = "A"          -> ADecode(b, p)
      [] k = "AAAA"       -> AAAADecode(b, p)
      [] k = "CNAME"      -> CNAMEDecode(b, p)
      [] k = "DNSKEY"     -> DNSKEYDecode(b, p)
      [] k = "DS"         -> DSDecode(b, p)
      [] k = "MX"         -> MXDecode(b, p)
      [] k = "NODATA"     -> NODATADecode(b, p)
      [] k = "NXDOMAIN"   -> NXDOMAINDecode(b, p)
      [] k = "NS"         -> NSDecode(b, p)
      [] k = "NSEC3"      -> NSEC3Decode(b, p)
      [] k = "NSEC3PARAM" -> NSEC3PARAMDecode(b, p)
      [] k = "PTR"        -> PTRDecode(b, p)
      [] k = "RRSIG"      -> RRSIGDecode(b, p)
      [] k = "SOA"        -> SOADecode(b, p)
      [] k = "TXT"        -> TXTDecode(b, p)
      [] k = "RDATA"      -> RDATADecode(b, p)

\* Owner name, type, class and TTL.
RRHeaderEncode(rr, w) ==
    Octets4Encode(I32ToU32(rr.TTL),
      Octets2Encode(rr.Class,
        Octets2Encode(rr.Type, DomainNameEncode(rr.Name, w))))

\* The RDLENGTH placeholder is patched with byte(n >> 8), byte(n).
RREncode(rr, w) ==
    LET w1 == RRHeaderEncode(rr, w)
        p0 == Len(w1.Buf)
        w2 == RDataEncode(rr.RData, Append1(w1, <<0, 0>>))
        n  == Len(w2.Buf) - (p0 + 2)
    IN  IF Panicked(w2) THEN w2
        ELSE [w2 EXCEPT !.Buf[p0 + 1] = ToByte(n \div 256),
                        !.Buf[p0 + 2] = ToByte(n)]

\* An RR.Decode that hands the variant the whole buffer instead of
\* b[:*pos+int(rdlength)].
RDataViewWhole(b, end) == b

\* b[:end], the slice the variant's Decode is handed.  The buffer is taken
\* to have no spare capacity, so an end beyond len(b) is out of range.
RDataView(b, end) == SubSeq(b, 1, end)

\* The result carries, besides the record, where the RDATA starts, the
\* decoded RDLENGTH and the length of the slice the variant was handed.
RRDecode(b, p) ==
    LET z  == [Name |-> <<>>, Type |-> 0, Class |-> 0, TTL |-> 0,
               RData |-> [k |-> "nil"]]
        g  == [rdstart |-> -1, rdlength |-> -1, viewlen |-> -1]
        f1 == DomainNameDecode(b, p, <<>>)
        d1 == [z EXCEPT !.Name = f1.v]
        f2 == Octets2Decode(b, f1.pos, 0)
        d2 == [d1 EXCEPT !.Type = f2.v]
        f3 == Octets2Decode(b, f2.pos, 0)
        d3 == [d2 EXCEPT !.Class = f3.v]
        f4 == Octets4Decode(b, f3.pos, Zero32)
        d4 == [d3 EXCEPT !.TTL = ToI32(f4.v)]
        f5 == Octets2Decode(b, f4.pos, 0)
        end == f5.pos + f5.v
        k  == VariantOf(d4.Type)
        view == RDataView(b, end)
        g5 == [rdstart |-> f5.pos, rdlength |-> f5.v, viewlen |-> Len(view)]
        f6 == RDataDecode(k, view, f5.pos)
    IN  IF f1.err # "" THEN Fail(f1.err, d1, f1.pos) @@ g
        ELSE IF f2.err # "" THEN Fail(f2.err, d2, f2.pos) @@ g
        ELSE IF f3.err # "" THEN Fail(f3.err, d3, f3.pos) @@ g
        ELSE IF f4.err # "" THEN Fail(f4.err, d3, f4.pos) @@ g
        ELSE IF f5.err # "" THEN Fail(f5.err, d4, f5.pos) @@ g
        ELSE IF end > Len(b)
             THEN Fail("panic: slice bounds out of range", d4, f5.pos)
                  @@ [g EXCEPT !.rdstart = f5.pos, !.rdlength = f5.v]
        ELSE [f6 EXCEPT !.v = [d4 EXCEPT !.RData = f6.v]] @@ g5

---------------------------------------------------------------------------
(* Record-set algebra.                                                     *)

Variants == {"A", "AAAA", "CNAME", "DNSKEY", "DS", "MX", "NODATA", "NXDOMAIN",
             "NS", "NSEC3", "NSEC3PARAM", "PTR", "RRSIG", "SOA", "TXT", "RDATA"}

\* What a.Equal(b) gives: "true", "false", "fatal" for log.Fatalf and
\* "panic" for a failed type assertion on b.RData.
Bool(v) == IF v THEN "true" ELSE "false"

\* The field comparisons of the type switch of RR.Equal, a.RData and
\* b.RData being of the same variant.
EqualFields(x, y) ==
         CASE x.k = "RDATA"  -> x.Bytes = y.Bytes
           [] x.k = "A"      -> IPString(x.Address) = IPString(y.Address)
           [] x.k = "AAAA"   -> IPString(x.Address) = IPString(y.Address)
           [] x.k = "CNAME"  -> ToLower(x.Name) = ToLower(y.Name)
           [] x.k = "DNSKEY" -> /\ x.Flags = y.Flags
                                /\ x.Protocol = y.Protocol
                                /\ x.Algorithm = y.Algorithm
                                /\ x.Key = y.Key
           [] x.k = "DS"     -> /\ x.KeyTag = y.KeyTag
                                /\ x.AlgorithmType = y.AlgorithmType
                                /\ x.DigestType = y.DigestType
                                /\ x.Digest = y.Digest
           [] x.k = "MX"     -> /\ x.Preference = y.Preference
                                /\ ToLower(x.Exchange) = ToLower(y.Exchange)
           [] x.k = "NODATA" -> x.Type = y.Type
           [] x.k = "NS"     -> ToLower(x.NSDName) = ToLower(y.NSDName)
           [] x.k = "NSEC3"  -> /\ x.HashAlgorithm = y.HashAlgorithm
                                /\ x.Flags = y.Flags
                                /\ x.Iterations = y.Iterations
                                /\ x.Salt = y.Salt
                                /\ x.NextHashedOwnerName = y.NextHashedOwnerName
                                /\ x.TypeBitMaps = y.TypeBitMaps
           [] x.k = "NSEC3PARAM" -> /\ x.HashAlgorithm = y.HashAlgorithm
                                    /\ x.Flags = y.Flags
                                    /\ x.Iterations = y.Iterations
                                    /\ x.Salt = y.Salt
           [] x.k = "PTR"    -> ToLower(x.PTRDName) = ToLower(y.PTRDName)
           [] x.k = "RRSIG"  -> /\ x.Type = y.Type
                                /\ x.AlgorithmType = y.AlgorithmType
                                /\ x.Labels = y.Labels
                                /\ x.TTL = y.TTL
                                /\ x.Expiration = y.Expiration
                                /\ x.KeyTag = y.KeyTag
                                /\ ToLower(x.Name) = ToLower(y.Name)
                                /\ x.Signature = y.Signature
           [] x.k = "SOA"    -> /\ ToLower(x.MName) = ToLower(y.MName)
                                /\ ToLower(x.RName) = ToLower(y.RName)
                                /\ x.Serial = y.Serial
                                /\ x.Refresh = y.Refresh
                                /\ x.Retry = y.Retry
                                /\ x.Expire = y.Expire
                                /\ x.Minimum = y.Minimum
           [] x.k = "TXT"    -> x.S = y.S

\* The type switch of RR.Equal on a.RData, entered once Name, Type and
\* Class match.
EqualRData(x, y) ==
    IF x.k \notin Variants THEN "fatal"
    ELSE IF x.k = "NXDOMAIN" THEN "true"
    ELSE IF y.k # x.k THEN "panic"
    ELSE Bool(EqualFields(x, y))

\* An Equal that compares the owner names byte for byte.
EqualExactName(a, b) ==
    IF a.Type # b.Type \/ a.Class # b.Class \/ a.Name # b.Name
    THEN "false"
    ELSE EqualRData(a.RData, b.RData)

Equal(a, b) ==
    IF a.Type # b.Type \/ a.Class # b.Class \/ ToLower(a.Name) # ToLower(b.Name)
    THEN "false"
    ELSE EqualRData(a.RData, b.RData)

\* A SetAdd that looks for an Equal record only among the records the
\* target held when the call began.
SetAddStale(rs, rrs) ==
    LET IsNew(n) == ~ \E i \in DOMAIN rs : Equal(n, rs[i]) = "true"
    IN  rs \o SelectSeq(rrs, IsNew)

\* The loop of RRs.SetAdd: each record of rrs is appended to rs unless it
\* is Equal to a record rs holds by then.
RECURSIVE SetAdd(_, _)
SetAdd(rs, rrs) ==
    IF rrs = <<>> THEN rs
    ELSE LET newrec == Head(rrs)
             isnew  == ~ \E i \in DOMAIN rs : Equal(newrec, rs[i]) = "true"
         IN  SetAdd(IF isnew THEN Append(rs, newrec) ELSE rs, Tail(rrs))

\* A Unique whose accumulator starts as the set itself.
UniqueFromSelf(rs) == SetAdd(rs, rs)

\* RRs.Unique: y := RRs{}; y.SetAdd(r)
Unique(rs) == SetAdd(<<>>, rs)

NoParts == [t \in {} |-> <<>>]

\* The first loop of RRs.Partition.
RECURSIVE PartitionLoop(_, _)
PartitionLoop(rs, parts) ==
    IF rs = <<>> THEN parts
    ELSE LET v == Head(rs)
         IN  PartitionLoop(Tail(rs),
                 IF v.Type \in DOMAIN parts
                 THEN [parts EXCEPT ![v.Type] = Append(@, v)]
                 ELSE parts @@ (v.Type :> <<v>>))

\* A Partition that deduplicates whatever its flag says.
PartitionAlwaysUnique(rs, unique) ==
    LET parts == PartitionLoop(rs, NoParts)
    IN  [t \in DOMAIN parts |-> Unique(parts[t])]

\* RRs.Partition
Partition(rs, unique) ==
    LET parts == PartitionLoop(rs, NoParts)
    IN  IF unique THEN [t \in DOMAIN parts |-> Unique(parts[t])] ELSE parts

\* Parts.Join, the map being ranged over in the given order of its keys.
RECURSIVE Join(_, _)
Join(p, order) ==
    IF order = <<>> THEN <<>>
    ELSE p[Head(order)] \o Join(p, Tail(order))

\* Parts.SetAdd: every key of b is handled on its own, so the order in
\* which the map b is ranged over does not show in the result.
PartsSetAdd(a, b) ==
    [t \in DOMAIN a \cup DOMAIN b |->
        IF t \notin DOMAIN b THEN a[t]
        ELSE IF t \notin DOMAIN a THEN b[t]
        ELSE SetAdd(a[t], b[t])]

---------------------------------------------------------------------------
(* The records the codec is run on.                                        *)

nRoot == <<>>
nA    == <<(<<97>>)>>
nUA   == <<(<<65>>)>>
nWA   == <<(<<119>>), (<<97>>)>>
nMA   == <<(<<109>>), (<<97>>)>>
\* A name of the greatest wire length, 255 bytes.
nLong == <<Fill(63, 1), Fill(63, 2), Fill(63, 3), Fill(61, 4)>>

Mk(type, rdata) ==
    [Name |-> nWA, Type |-> type, Class |-> CLASS_IN, TTL |-> 3600,
     RData |-> rdata]

rA      == Mk(TYPE_A, [k |-> "A", Address |-> <<192, 0, 2, 1>>])
rA16    == Mk(TYPE_A, [k |-> "A", Address |-> IPv4(192, 0, 2, 1)])
rAAAA   == Mk(TYPE_AAAA, [k |-> "AAAA", Address |-> Fill(16, 3)])
rAAAA4  == Mk(TYPE_AAAA, [k |-> "AAAA", Address |-> <<192, 0, 2, 1>>])
rCNAME  == Mk(TYPE_CNAME, [k |-> "CNAME", Name |-> nMA])
rDNSKEY == Mk(TYPE_DNSKEY, [k |-> "DNSKEY", Flags |-> 257, Protocol |-> 3,
                            Algorithm |-> 5, Key |-> <<171>>])
rDS     == Mk(TYPE_DS, [k |-> "DS", KeyTag |-> 65535, AlgorithmType |-> 5,
                        DigestType |-> HashAlgorithmSHA1,
                        Digest |-> Fill(20, 9)])
rMX     == Mk(TYPE_MX, [k |-> "MX", Preference |-> 10, Exchange |-> nMA])
rNODATA == Mk(TYPE_NODATA, [k |-> "NODATA", Type |-> TYPE_A])
rNXDOMAIN == Mk(TYPE_NXDOMAIN, [k |-> "NXDOMAIN"])
rNS     == Mk(TYPE_NS, [k |-> "NS", NSDName |-> nA])
rPARAM  == Mk(TYPE_NSEC3PARAM, [k |-> "NSEC3PARAM", HashAlgorithm |-> 1,
                                Flags |-> 1, Iterations |-> 300,
                                Salt |-> <<>>])
rNSEC3  == Mk(TYPE_NSEC3, [k |-> "NSEC3", HashAlgorithm |-> 1, Flags |-> 0,
                           Iterations |-> 12, Salt |-> <<170, 187>>,
                           NextHashedOwnerName |-> Fill(20, 5),
                           TypeBitMaps |-> <<0, 1, 64>>])
rPTR    == Mk(TYPE_PTR, [k |-> "PTR", PTRDName |-> nUA])
rRRSIG  == Mk(TYPE_RRSIG, [k |-> "RRSIG", Type |-> TYPE_A, AlgorithmType |-> 5,
                           Labels |-> 2, TTL |-> 3600, Expiration |-> U32(19836, 27392),
                           Inception |-> U32(18310, 35840), KeyTag |-> 4660,
                           Name |-> nA, Signature |-> <<1, 2, 3>>])
rSOA    == Mk(TYPE_SOA, [k |-> "SOA", MName |-> nMA, RName |-> nA,
                         Serial |-> U32(30685, 32821), Refresh |-> U32(0, 7200),
                         Retry |-> U32(0, 3600), Expire |-> U32(65535, 65535),
                         Minimum |-> Zero32])
rTXT    == Mk(TYPE_TXT, [k |-> "TXT", S |-> <<104, 105>>])
\* 99 (SPF) and 3 (MD) are type codes RR.Decode has no case for.
rOPAQUE == Mk(99, [k |-> "RDATA", Bytes |-> <<222, 173, 190, 239>>])

\* One record of every variant: what SpecStream writes back to back.
StreamTable ==
    <<rA, rAAAA, rCNAME, rDNSKEY, rDS, rMX, rNODATA, rNXDOMAIN, rNS, rPARAM,
      rNSEC3, rPTR, rRRSIG, rSOA, rTXT, rOPAQUE>>

\* The two forms of an IPv4 address, and header values at their limits.
HeaderTable ==
    <<rA16, rAAAA4,
     [rA EXCEPT !.TTL = -1], [rA EXCEPT !.TTL = 2147483647],
     [rA EXCEPT !.TTL = -2147483647 - 1], [rA EXCEPT !.TTL = 0],
     [rA EXCEPT !.Name = nRoot], [rA EXCEPT !.Name = nLong],
     [rA EXCEPT !.Class = CLASS_CH], [rA EXCEPT !.Class = 65535]>>

\* Shortest and longest legal instances of the variable-length fields.  An
\* RDATA of 65535 bytes is the longest RDLENGTH can count.
LimitTable ==
    <<[rA16 EXCEPT !.RData.Address = IPv4(255, 255, 255, 255)],
     [rAAAA EXCEPT !.RData.Address = Fill(16, 0)],
     [rCNAME EXCEPT !.RData.Name = nRoot],
     [rCNAME EXCEPT !.RData.Name = nLong],
     [rCNAME EXCEPT !.RData.Name = nA],
     [rCNAME EXCEPT !.RData.Name = nWA],
     [rNS EXCEPT !.RData.NSDName = nLong],
     [rPTR EXCEPT !.RData.PTRDName = nRoot],
     [rMX EXCEPT !.RData.Preference = 65535, !.RData.Exchange = nLong],
     [rMX EXCEPT !.RData.Preference = 0, !.RData.Exchange = nRoot],
     [rDNSKEY EXCEPT !.RData.Key = Fill(65531, 11), !.RData.Flags = 65535],
     [rDS EXCEPT !.RData.KeyTag = 0, !.RData.AlgorithmType = 255],
     [rNODATA EXCEPT !.RData.Type = 65535],
     [rPARAM EXCEPT !.RData.Salt = Fill(255, 13), !.RData.Iterations = 65535],
     [rPARAM EXCEPT !.RData.Salt = <<7>>, !.RData.HashAlgorithm = 255],
     [rNSEC3 EXCEPT !.RData.Salt = <<>>, !.RData.NextHashedOwnerName = <<1>>,
                    !.RData.TypeBitMaps = <<>>],
     [rNSEC3 EXCEPT !.RData.Salt = Fill(255, 13),
                    !.RData.NextHashedOwnerName = Fill(255, 17),
                    !.RData.TypeBitMaps = Fill(65018, 19)],
     [rNSEC3 EXCEPT !.RData.Salt = <<>>,
                    !.RData.NextHashedOwnerName = Fill(65528, 17),
                    !.RData.TypeBitMaps = <<>>],
     [rRRSIG EXCEPT !.RData.Signature = <<9>>, !.RData.TTL = -1,
                    !.RData.Name = nRoot],
     [rRRSIG EXCEPT !.RData.Signature = Fill(65516, 23), !.RData.Name = nRoot,
                    !.RData.Expiration = U32(65535, 65535),
                    !.RData.Inception = Zero32],
     [rRRSIG EXCEPT !.RData.Name = nWA],
     [rRRSIG EXCEPT !.RData.Name = nLong],
     [rSOA EXCEPT !.RData.MName = nRoot, !.RData.RName = nRoot,
                  !.RData.Serial = Zero32, !.RData.Minimum = U32(65535, 65535)],
     [rSOA EXCEPT !.RData.MName = nLong, !.RData.RName = nLong],
     [rSOA EXCEPT !.RData.MName = nWA, !.RData.RName = nWA],
     [rTXT EXCEPT !.RData.S = <<>>],
     [rTXT EXCEPT !.RData.S = Fill(255, 29)],
     [rOPAQUE EXCEPT !.RData.Bytes = <<>>],
     [rOPAQUE EXCEPT !.RData.Bytes = Fill(65535, 31)],
     [rOPAQUE EXCEPT !.Type = 3, !.RData.Bytes = <<0>>],
     [rOPAQUE EXCEPT !.Type = 65535]>>

\* Values the variants' types can hold but the wire layout cannot carry.
OversizeTable ==
    <<[rOPAQUE EXCEPT !.RData.Bytes = Fill(65536, 31)],
     [rOPAQUE EXCEPT !.RData.Bytes = Fill(65537, 31)],
     [rDNSKEY EXCEPT !.RData.Key = <<>>],
     [rRRSIG EXCEPT !.RData.Signature = <<>>],
     [rDS EXCEPT !.RData.DigestType = 2, !.RData.Digest = Fill(32, 9)],
     [rDS EXCEPT !.RData.Digest = Fill(19, 9)],
     [rPARAM EXCEPT !.RData.Salt = Fill(256, 13)],
     [rTXT EXCEPT !.RData.S = Fill(256, 29)],
     [rA EXCEPT !.RData.Address = Fill(16, 3)],
     [rAAAA EXCEPT !.RData.Address = <<1, 2, 3, 4, 5>>]>>

\* The table of records; a record is named by its index in it.
RRTable == StreamTable \o HeaderTable \o LimitTable \o OversizeTable

StreamIds == DOMAIN StreamTable
CodecIds  == DOMAIN RRTable

---------------------------------------------------------------------------
(* Encoding records into a Wirebuf and decoding them back.                 *)

Last(s) == s[Len(s)]

\* rr.Encode(b) on the Wirebuf, which may hold records already.
EncodeRR(U, max) ==
    \E id \in U :
        /\ Len(sent) < max
        /\ ~Panicked(wb)
        /\ wb' = RREncode(RRTable[id], wb)
        /\ sent' = Append(sent,
                     [id      |-> id,
                      start   |-> Len(wb.Buf),
                      rdstart |-> Len(RRHeaderEncode(RRTable[id], wb).Buf) + 2,
                      end     |-> Len(wb'.Buf)])
        /\ UNCHANGED <<lexVars, pos, got, equalVars, setVars>>

\* rr.Decode(b.Buf, &pos) of the next record, unless the last call failed.
DecodeRR ==
    /\ Len(got) < Len(sent)
    /\ (IF got = <<>> THEN TRUE ELSE Last(got).err = "")
    /\ LET d == RRDecode(wb.Buf, pos)
       IN  /\ got' = Append(got, d @@ [buflen |-> Len(wb.Buf)])
           /\ pos' = d.pos
    /\ UNCHANGED <<lexVars, sent, wb, equalVars, setVars>>

InitIdleEqual == ea = rA /\ eb = rA /\ eres = "none"
NoRes == [op |-> "none", before |-> <<>>, arg |-> <<>>, unique |-> FALSE,
          parts |-> <<>>, out |-> <<>>]

InitIdleSet   == r = <<>> /\ incoming = <<>> /\ res = NoRes
InitIdleCodec == sent = <<>> /\ wb = NewWirebuf /\ pos = 0 /\ got = <<>>
InitIdleLex   == lx = <<>> /\ calls = <<>>

InitCodec == InitIdleCodec /\ InitIdleEqual /\ InitIdleSet /\ InitIdleLex

NextCodec == EncodeRR(CodecIds, 1) \/ DecodeRR

\* One record of any kind, encoded into an empty buffer and decoded.
SpecCodec == InitCodec /\ [][NextCodec]_vars

NextStream == EncodeRR(StreamIds, MaxRecs) \/ DecodeRR

\* Up to MaxRecs records written back to back, decoded one after another.
SpecStream == InitCodec /\ [][NextStream]_vars

---------------------------------------------------------------------------
(* RR.Equal on pairs of records.                                           *)

nUWA == <<(<<87>>), (<<65>>)>>
nUMA == <<(<<77>>), (<<65>>)>>
nWa  == <<(<<87>>), (<<97>>)>>

\* Every base record, and every base record with one field changed: a
\* header field, or one RDATA field, names also in letter case only.
EqualRRs ==
    {RRTable[i] : i \in StreamIds} \cup {rA16, rAAAA4}
    \cup {[rCNAME EXCEPT !.Name = nUWA], [rCNAME EXCEPT !.Name = nWa],
          [rCNAME EXCEPT !.Name = nMA], [rCNAME EXCEPT !.Class = CLASS_CH],
          [rCNAME EXCEPT !.TTL = 0], [rCNAME EXCEPT !.Type = TYPE_NS],
          [rCNAME EXCEPT !.RData.Name = nUMA],
          [rCNAME EXCEPT !.RData.Name = nWA],
          [rCNAME EXCEPT !.Name = nUWA, !.RData.Name = nUMA]}
    \cup {[rA EXCEPT !.RData.Address = <<192, 0, 2, 2>>],
          [rAAAA EXCEPT !.RData.Address = Fill(16, 4)]}
    \cup {[rDNSKEY EXCEPT !.RData.Flags = 256],
          [rDNSKEY EXCEPT !.RData.Protocol = 2],
          [rDNSKEY EXCEPT !.RData.Algorithm = 3],
          [rDNSKEY EXCEPT !.RData.Key = <<172>>]}
    \cup {[rDS EXCEPT !.RData.KeyTag = 1],
          [rDS EXCEPT !.RData.AlgorithmType = 3],
          [rDS EXCEPT !.RData.DigestType = 0],
          [rDS EXCEPT !.RData.Digest = Fill(20, 10)]}
    \cup {[rMX EXCEPT !.RData.Preference = 20],
          [rMX EXCEPT !.RData.Exchange = nUMA],
          [rMX EXCEPT !.RData.Exchange = nWA]}
    \cup {[rNODATA EXCEPT !.RData.Type = TYPE_NS]}
    \cup {[rNS EXCEPT !.RData.NSDName = nUA],
          [rNS EXCEPT !.RData.NSDName = nMA]}
    \cup {[rPTR EXCEPT !.RData.PTRDName = nA],
          [rPTR EXCEPT !.RData.PTRDName = nMA]}
    \cup {[rPARAM EXCEPT !.RData.HashAlgorithm = 0],
          [rPARAM EXCEPT !.RData.Flags = 0],
          [rPARAM EXCEPT !.RData.Iterations = 301],
          [rPARAM EXCEPT !.RData.Salt = <<1>>]}
    \cup {[rNSEC3 EXCEPT !.RData.HashAlgorithm = 0],
          [rNSEC3 EXCEPT !.RData.Flags = 1],
          [rNSEC3 EXCEPT !.RData.Iterations = 13],
          [rNSEC3 EXCEPT !.RData.Salt = <<170>>],
          [rNSEC3 EXCEPT !.RData.NextHashedOwnerName = Fill(20, 6)],
          [rNSEC3 EXCEPT !.RData.TypeBitMaps = <<0, 1, 65>>]}
    \cup {[rRRSIG EXCEPT !.RData.Type = TYPE_NS],
          [rRRSIG EXCEPT !.RData.AlgorithmType = 3],
          [rRRSIG EXCEPT !.RData.Labels = 3],
          [rRRSIG EXCEPT !.RData.TTL = 60],
          [rRRSIG EXCEPT !.RData.Expiration = U32(19836, 27393)],
          [rRRSIG EXCEPT !.RData.Inception = U32(18310, 35841)],
          [rRRSIG EXCEPT !.RData.KeyTag = 4661],
          [rRRSIG EXCEPT !.RData.Name = nUA],
          [rRRSIG EXCEPT !.RData.Name = nMA],
          [rRRSIG EXCEPT !.RData.Signature = <<1, 2, 4>>]}
    \cup {[rSOA EXCEPT !.RData.MName = nUMA],
          [rSOA EXCEPT !.RData.MName = nWA],
          [rSOA EXCEPT !.RData.RName = nUA],
          [rSOA EXCEPT !.RData.RName = nMA],
          [rSOA EXCEPT !.RData.MName = nUMA, !.RData.RName = nUA],
          [rSOA EXCEPT !.RData.Serial = U32(30685, 32822)],
          [rSOA EXCEPT !.RData.Refresh = U32(1, 7200)],
          [rSOA EXCEPT !.RData.Retry = U32(0, 3601)],
          [rSOA EXCEPT !.RData.Expire = U32(65535, 65534)],
          [rSOA EXCEPT !.RData.Minimum = U32(0, 1)]}
    \cup {[rTXT EXCEPT !.RData.S = <<72, 73>>],
          [rTXT EXCEPT !.RData.S = <<104>>]}
    \cup {[rOPAQUE EXCEPT !.RData.Bytes = <<222, 173, 190, 238>>],
          [rOPAQUE EXCEPT !.Type = 3]}

\* a.Equal(b)
EqualOp ==
    /\ eres = "none"
    /\ eres' = Equal(ea, eb)
    /\ UNCHANGED <<lexVars, ea, eb, codecVars, setVars>>

InitEqual ==
    /\ ea \in EqualRRs /\ eb \in EqualRRs /\ eres = "none"
    /\ InitIdleCodec /\ InitIdleSet /\ InitIdleLex

NextEqual == EqualOp

\* RR.Equal applied to a pair of records.
SpecEqual == InitEqual /\ [][NextEqual]_vars

---------------------------------------------------------------------------
(* Operations on record sets.                                              *)

sA  == rA
sAU == [rA EXCEPT !.Name = nUWA]
sA2 == [rA EXCEPT !.RData.Address = <<192, 0, 2, 2>>]
sNS == rNS

\* Two records that are Equal without being the same value, a record of
\* the same type Equal to neither, and a record of another type.
SetRRs == {sA, sAU, sA2, sNS}

RECURSIVE SeqsOfLen(_, _)
SeqsOfLen(S, n) ==
    IF n = 0 THEN {<<>>}
    ELSE {Append(q, x) : q \in SeqsOfLen(S, n - 1), x \in S}

SeqsUpTo(S, n) == UNION {SeqsOfLen(S, m) : m \in 0..n}

\* The orders in which a map with the keys K can be ranged over.
Orders(K) ==
    {o \in SeqsOfLen(K, Cardinality(K)) : {o[i] : i \in DOMAIN o} = K}

\* r.Unique()
UniqueOp ==
    /\ res.op = "none"
    /\ r' = Unique(r)
    /\ res' = [NoRes EXCEPT !.op = "Unique", !.before = r]
    /\ UNCHANGED <<lexVars, incoming, codecVars, equalVars>>

\* r.SetAdd(incoming)
SetAddOp ==
    /\ res.op = "none"
    /\ r' = SetAdd(r, incoming)
    /\ res' = [NoRes EXCEPT !.op = "SetAdd", !.before = r, !.arg = incoming]
    /\ UNCHANGED <<lexVars, incoming, codecVars, equalVars>>

\* r.SetAdd(r)
SetAddSelfOp ==
    /\ res.op = "none"
    /\ r' = SetAdd(r, r)
    /\ res' = [NoRes EXCEPT !.op = "SetAddSelf", !.before = r, !.arg = r]
    /\ UNCHANGED <<lexVars, incoming, codecVars, equalVars>>

\* parts = r.Partition(unique)
PartitionOp ==
    \E unique \in BOOLEAN :
        /\ res.op = "none"
        /\ res' = [NoRes EXCEPT !.op = "Partition", !.unique = unique,
                                !.parts = Partition(r, unique)]
        /\ UNCHANGED <<lexVars, r, incoming, codecVars, equalVars>>

\* parts.Join(), the map iterated in any order
JoinOp ==
    \E order \in Orders(DOMAIN res.parts) :
        /\ res.op = "Partition"
        /\ res' = [res EXCEPT !.op = "Join", !.out = Join(res.parts, order)]
        /\ UNCHANGED <<lexVars, r, incoming, codecVars, equalVars>>

\* parts.SetAdd(b) for b a partition of incoming
PartsSetAddOp ==
    \E unique \in BOOLEAN :
        /\ res.op = "Partition"
        /\ LET b == Partition(incoming, unique)
           IN  res' = [res EXCEPT !.op = "PartsSetAdd", !.before = res.parts,
                                  !.arg = b,
                                  !.parts = PartsSetAdd(res.parts, b)]
        /\ UNCHANGED <<lexVars, r, incoming, codecVars, equalVars>>

InitSet ==
    /\ r \in SeqsUpTo(SetRRs, MaxSetLen)
    /\ incoming \in SeqsUpTo(SetRRs, MaxIncoming)
    /\ res = NoRes
    /\ InitIdleCodec /\ InitIdleEqual /\ InitIdleLex

NextSet ==
    \/ UniqueOp
    \/ SetAddOp
    \/ SetAddSelfOp
    \/ PartitionOp
    \/ JoinOp
    \/ PartsSetAddOp

\* One set operation on r, or a Partition followed by an operation on the
\* partition.
SpecSet == InitSet /\ [][NextSet]_vars

---------------------------------------------------------------------------
(* Decoding from buffers that end early.                                  *)

\* What Encode appends for the RDATA d.
WireOf(d) == RDataEncode(d, NewWirebuf).Buf

\* Two records back to back: rA, then the record id of the stream table.
PairOf(id) == RREncode(RRTable[id], RREncode(rA, NewWirebuf)).Buf

MaxPad == 2

\* The buffers handed to Decode: every prefix of the RDATA of the variants
\* with a tail field or a fixed layout, at offset 0 and after one byte;
\* every prefix of two records back to back; and each record of the stream
\* table with up to MaxPad more bytes of RDATA than its variant reads
\* (RDLENGTH counting them), followed by rA.
WireViews ==
    LET Padded(id, extra) ==
            LET w  == RREncode(RRTable[id], NewWirebuf).Buf
                p0 == Len(RRHeaderEncode(RRTable[id], NewWirebuf).Buf)
                n  == Len(w) - (p0 + 2) + extra
            IN  [w EXCEPT ![p0 + 1] = ToByte(n \div 256), ![p0 + 2] = ToByte(n)]
                \o Fill(extra, 9) \o RREncode(rA, NewWirebuf).Buf
        rdatas == {WireOf(rRRSIG.RData), WireOf(rDNSKEY.RData),
                   WireOf(rDS.RData), WireOf(rDS.RData) \o <<9, 9>>,
                   WireOf([rDS.RData EXCEPT !.DigestType = 2]),
                   WireOf([rDS.RData EXCEPT !.DigestType = 0,
                                            !.Digest = Fill(32, 5)]),
                   WireOf(rSOA.RData), WireOf(rSOA.RData) \o <<9>>}
    IN  UNION {{[b |-> pad \o SubSeq(w, 1, n), start |-> Len(pad)] :
                   pad \in {<<>>, <<7>>}, n \in 0..Len(w)} : w \in rdatas}
        \cup UNION {{[b |-> SubSeq(PairOf(id), 1, n), start |-> 0] :
                        n \in 0..Len(PairOf(id))} : id \in StreamIds}
        \cup {[b |-> Padded(id, extra), start |-> 0] :
                 id \in StreamIds, extra \in 0..MaxPad}

\* d.Decode(b, &pos) called on the buffer for the variant k
DecodeVariantOp ==
    \E k \in Variants :
        /\ got = <<>>
        /\ LET d == RDataDecode(k, wb.Buf, pos)
           IN  /\ got' = <<d @@ [op |-> "variant", kind |-> k, start |-> pos,
                                  buflen |-> Len(wb.Buf)]>>
               /\ pos' = d.pos
        /\ UNCHANGED <<lexVars, sent, wb, equalVars, setVars>>

\* rr.Decode(b, &pos) of the next record of the buffer, while bytes are
\* left and no call has failed.
DecodeWireOp ==
    /\ \A i \in DOMAIN got : got[i].op = "RR" /\ got[i].err = ""
    /\ pos < Len(wb.Buf)
    /\ LET d == RRDecode(wb.Buf, pos)
       IN  /\ got' = Append(got, d @@ [op |-> "RR", start |-> pos,
                                       buflen |-> Len(wb.Buf)])
           /\ pos' = d.pos
    /\ UNCHANGED <<lexVars, sent, wb, equalVars, setVars>>

InitWire ==
    /\ \E v \in WireViews :
          wb = [NewWirebuf EXCEPT !.Buf = v.b] /\ pos = v.start
    /\ sent = <<>> /\ got = <<>>
    /\ InitIdleEqual /\ InitIdleSet /\ InitIdleLex

NextWire == DecodeVariantOp \/ DecodeWireOp

\* Decode calls on buffers that may end anywhere.
SpecWire == InitWire /\ [][NextWire]_vars

---------------------------------------------------------------------------
(* The zone-file lexer of scanner.l.  A source is a sequence of bytes; a   *)
(* token is [t, c]: t = "char" with the byte c for a token that is a       *)
(* character ('\n' is 10, end of input 0), or the token's name.            *)

MaxSrcLen   == 3
MaxIncludes == 1

\* getc counting a newline as one more column.
getcColumnRuns(l, c) ==
    LET l1 == [l EXCEPT !.buf = IF c # 0 THEN Append(@, c) ELSE @,
                        !.last = l.peek]
    IN  IF l1.src # <<>>
        THEN LET b == Head(l1.src)
             IN  [l1 EXCEPT !.src = Tail(@),
                            !.line = IF b = 10 THEN @ + 1 ELSE @,
                            !.column = @ + 1,
                            !.peek = b]
        ELSE [l1 EXCEPT !.peek = 0]

\* l.getc(c): c, unless 0, joins the token buffer; the next byte of the
\* source becomes the lookahead and is counted in line and column; at the
\* end of the source the lookahead is 0.
getc(l, c) ==
    LET l1 == [l EXCEPT !.buf = IF c # 0 THEN Append(@, c) ELSE @,
                        !.last = l.peek]
    IN  IF l1.src # <<>>
        THEN LET b == Head(l1.src)
             IN  [l1 EXCEPT !.src = Tail(@),
                            !.line = IF b = 10 THEN @ + 1 ELSE @,
                            !.column = IF b = 10 THEN 0 ELSE @ + 1,
                            !.peek = b]
        ELSE [l1 EXCEPT !.peek = 0]

\* errHandler is "nil", or a callback that answers "true" or "false".
newLex(name, source, errHandler) ==
    getc([errHandler |-> errHandler, startCond |-> "INITIAL", buf |-> <<>>,
          last |-> 0, peek |-> 0, line |-> 1, column |-> 0, name |-> name,
          src |-> source, prev |-> <<>>, inParen |-> FALSE], 0)

\* l.include(name, source): prev is <<>> for nil, <<item>> for a pointer.
include(l, name, source) ==
    getc([l EXCEPT !.buf = <<>>, !.line = 1, !.column = 0, !.name = name,
                   !.src = source, !.prev = <<l>>], 0)

\* Error returning whatever the callback is or answers.
ErrorAlwaysReturns(l, e) ==
    [msg     |-> [name |-> l.name, line |-> l.line, column |-> l.column,
                  text |-> e, via |-> "Error"],
     returns |-> TRUE]

\* l.Error(e): the formatted message, and whether Error returns (it panics
\* with the message otherwise).
Error(l, e) ==
    [msg     |-> [name |-> l.name, line |-> l.line, column |-> l.column,
                  text |-> e, via |-> "Error"],
     returns |-> l.errHandler # "nil" /\ l.errHandler = "true"]

\* The length of the longest prefix of s made of bytes of the class.
RECURSIVE RunLen(_, _)
RunLen(s, class) ==
    IF s = <<>> \/ Head(s) \notin class THEN 0
    ELSE 1 + RunLen(Tail(s), class)

\* The automaton of {domain-name} from the state st on: the bytes it takes
\* and whether it stops in an accepting state.
RECURSIVE DomainScan(_, _)
DomainScan(s, st) ==
    LET ld   == 48..57 \cup 65..90 \cup 97..122
        c    == IF s = <<>> THEN 0 ELSE Head(s)
        next == CASE st = "start" /\ c \in ld -> "label"
                  [] st = "start" /\ c = 46  -> "root"
                  [] st \in {"label", "dash", "dot"} /\ c \in ld -> "label"
                  [] st \in {"label", "dash"} /\ c = 45 -> "dash"
                  [] st = "label" /\ c = 46 -> "dot"
                  [] OTHER -> "stop"
    IN  IF next = "stop"
        THEN [n |-> 0, ok |-> st \in {"label", "dot", "root"}]
        ELSE [DomainScan(Tail(s), next) EXCEPT !.n = @ + 1]

\* The automaton of {ipv4}: parts is the number of {byte} parts still to
\* come, dot tells that a "." comes before the next part.
RECURSIVE ScanIPv4(_, _, _)
ScanIPv4(s, parts, dot) ==
    IF parts = 0 THEN [n |-> 0, ok |-> TRUE]
    ELSE IF dot
    THEN IF s # <<>> /\ Head(s) = 46
         THEN [ScanIPv4(Tail(s), parts, FALSE) EXCEPT !.n = @ + 1]
         ELSE [n |-> 0, ok |-> parts = 0]
    ELSE LET k == Min(3, RunLen(s, 48..57))
         IN  IF k = 0 THEN [n |-> 0, ok |-> FALSE]
             ELSE IF parts = 1 THEN [n |-> k, ok |-> TRUE]
             ELSE [ScanIPv4(SubSeq(s, k + 1, Len(s)), parts - 1, TRUE)
                       EXCEPT !.n = @ + k]

\* net.ParseIP on a dotted quad: nil (<<>>) when a part is above 255.
ParseIP(s) ==
    LET dots == {i \in DOMAIN s : s[i] = 46}
        Part(k) ==
            LET lo == IF k = 1 THEN 1
                      ELSE 1 + CHOOSE i \in dots :
                                   Cardinality({j \in dots : j < i}) = k - 2
                hi == IF k = 4 THEN Len(s)
                      ELSE (CHOOSE i \in dots :
                                Cardinality({j \in dots : j < i}) = k - 1) - 1
                d(i) == s[i] - 48
            IN  IF hi = lo THEN d(lo)
                ELSE IF hi = lo + 1 THEN 10 * d(lo) + d(hi)
                ELSE 100 * d(lo) + 10 * d(lo + 1) + d(hi)
    IN  IF \E k \in 1..4 : Part(k) > 255 THEN <<>>
        ELSE IPv4(Part(1), Part(2), Part(3), Part(4))

\* strconv.Atoui64 on a run of digits fails when the number is above
\* 18446744073709551615.
Overflows(ds) ==
    LET z   == RunLen(ds, {48})
        t   == SubSeq(ds, z + 1, Len(ds))
        max == <<1, 8, 4, 4, 6, 7, 4, 4, 0, 7, 3, 7, 0, 9, 5, 5, 1, 6, 1, 5>>
    IN  \/ Len(t) > 20
        \/ /\ Len(t) = 20
           /\ \E i \in 1..20 : /\ t[i] - 48 > max[i]
                               /\ \A j \in 1..(i - 1) : t[j] - 48 = max[j]

\* The rule the automaton ends in from the lookahead on, and the number of
\* bytes it takes: the rules for blanks, newline, parentheses, names at the
\* start of a line, decimal numbers, IPv4 addresses and hex runs; "abort"
\* is the code after the rules (no pattern recognized).
Match(l) ==
    LET s   == IF l.peek = 0 THEN <<>> ELSE <<l.peek>> \o l.src
        c   == l.peek
        sc  == l.startCond
        bol == l.last = 10 \/ l.last = 0
        ws  == RunLen(s, {32, 9})
        eol == ws < Len(s) /\ s[ws + 1] = 10
        dom == DomainScan(s, "start")
        ip  == ScanIPv4(s, 4, FALSE)
    IN  CASE c \in {32, 9} ->
               [n |-> ws,
                rule |-> IF sc = "INITIAL" /\ bol /\ ~eol THEN "blank_start"
                         ELSE "ignored"]
          [] c \in {10, 13} -> [n |-> 1, rule |-> "newline"]
          [] c = 40 -> [n |-> 1, rule |-> "lparen"]
          [] c = 41 -> [n |-> 1, rule |-> "rparen"]
          [] sc = "INITIAL" /\ bol /\ dom.n > 0 ->
               [n |-> dom.n, rule |-> IF dom.ok THEN "domain" ELSE "abort"]
          [] sc \in {"rrHead", "num"} /\ c \in 48..57 ->
               [n |-> RunLen(s, 48..57), rule |-> "decadic"]
          [] sc = "ipv4" /\ c \in 48..57 ->
               [n |-> ip.n, rule |-> IF ip.ok THEN "ipv4" ELSE "abort"]
          [] sc = "hex" /\ c \in 48..57 \cup 65..70 \cup 97..102 ->
               [n |-> RunLen(s, 48..57 \cup 65..70 \cup 97..102),
                rule |-> "hex"]
          [] sc = "hex" /\ c = 45 -> [n |-> 1, rule |-> "hexdash"]
          [] OTHER -> [n |-> 0, rule |-> "abort"]

\* n transitions of the automaton, each c = l.getc(c); path is the
\* position (line, column) after each getc and the byte it read (peek).
RECURSIVE Advance(_, _)
Advance(l, n) ==
    IF n = 0 THEN [l |-> l, path |-> <<>>]
    ELSE LET l1 == getc(l, l.peek)
         IN  [Advance(l1, n - 1) EXCEPT
                 !.path = <<[line |-> l1.line, column |-> l1.column,
                             peek |-> l1.peek]>> \o @]

\* Action with the newline rule giving the end-of-record token whatever
\* inParen is.
ActionNewlineAlways(l, rule) ==
    LET none == [t |-> "none", c |-> -1]
        nl   == [t |-> "char", c |-> 10]
        lv   == [str |-> <<>>, ip |-> <<>>, data |-> <<>>]
        str  == [lv EXCEPT !.str = l.buf]
        R(l2, ret, lval) ==
            [l |-> l2, ret |-> ret, lval |-> lval, errs |-> <<>>,
             halted |-> FALSE]
        \* if bad { l.Error(e) }, then the rest of the action
        WithError(bad, e, rest) ==
            IF ~bad THEN rest
            ELSE LET x == Error(l, e)
                 IN  IF x.returns THEN [rest EXCEPT !.errs = <<x.msg>>]
                     ELSE [R(l, none, lv) EXCEPT !.errs = <<x.msg>>,
                                                !.halted = TRUE]
        HexVal(c) == IF c <= 57 THEN c - 48
                     ELSE IF c <= 70 THEN c - 55 ELSE c - 87
        odd  == Len(l.buf) % 2 = 1
        data == IF odd THEN <<>>
                ELSE [i \in 1..(Len(l.buf) \div 2) |->
                         HexVal(l.buf[2 * i - 1]) * 16 + HexVal(l.buf[2 * i])]
        ip   == ParseIP(l.buf)
    IN  CASE rule = "ignored" -> R(l, none, lv)
          [] rule = "newline" ->
               R(l, nl, str)
          [] rule = "lparen" ->
               WithError(l.inParen, "nested parenthesis",
                         R([l EXCEPT !.inParen = TRUE], none, lv))
          [] rule = "rparen" ->
               WithError(~l.inParen, "enexpected \")\"",
                         R([l EXCEPT !.inParen = FALSE], nl, str))
          [] rule = "domain" -> R(l, [t |-> "tDOMAIN_NAME", c |-> 0], str)
          [] rule = "blank_start" -> R(l, [t |-> "tBLANK_START", c |-> 0], str)
          [] rule = "decadic" ->
               IF Overflows(l.buf)
               THEN [R(l, none, str) EXCEPT
                        !.errs = <<[name |-> "", line |-> 0, column |-> 0,
                                    text |-> "invalid number", via |-> "panic"]>>,
                        !.halted = TRUE]
               ELSE R(l, [t |-> "tDECADIC", c |-> 0], str)
          [] rule = "ipv4" ->
               WithError(ip = <<>>, "invalid IP",
                         R(l, [t |-> "tIPV4", c |-> 0], [lv EXCEPT !.ip = ip]))
          [] rule = "hex" ->
               WithError(odd, "expected hex string",
                         R(l, [t |-> "tHEX", c |-> 0],
                           [str EXCEPT !.data = data]))
          [] rule = "hexdash" -> R(l, [t |-> "tHEX", c |-> 0], str)
          [] rule = "abort" ->
               IF l.buf = <<>>
               THEN R(getc(l, 0), [t |-> "char", c |-> l.peek], lv)
               ELSE R(l, [t |-> "ReplacementChar", c |-> 65533], lv)

\* The action of the rule, the token buffer holding the bytes matched: the
\* lexer after it, ret (t = "none" for ret < 0), what it stored in lval,
\* the errors it raised and whether it ended in a panic.
Action(l, rule) ==
    LET none == [t |-> "none", c |-> -1]
        nl   == [t |-> "char", c |-> 10]
        lv   == [str |-> <<>>, ip |-> <<>>, data |-> <<>>]
        str  == [lv EXCEPT !.str = l.buf]
        R(l2, ret, lval) ==
            [l |-> l2, ret |-> ret, lval |-> lval, errs |-> <<>>,
             halted |-> FALSE]
        \* if bad { l.Error(e) }, then the rest of the action
        WithError(bad, e, rest) ==
            IF ~bad THEN rest
            ELSE LET x == Error(l, e)
                 IN  IF x.returns THEN [rest EXCEPT !.errs = <<x.msg>>]
                     ELSE [R(l, none, lv) EXCEPT !.errs = <<x.msg>>,
                                                !.halted = TRUE]
        HexVal(c) == IF c <= 57 THEN c - 48
                     ELSE IF c <= 70 THEN c - 55 ELSE c - 87
        odd  == Len(l.buf) % 2 = 1
        data == IF odd THEN <<>>
                ELSE [i \in 1..(Len(l.buf) \div 2) |->
                         HexVal(l.buf[2 * i - 1]) * 16 + HexVal(l.buf[2 * i])]
        ip   == ParseIP(l.buf)
    IN  CASE rule = "ignored" -> R(l, none, lv)
          [] rule = "newline" ->
               IF ~l.inParen THEN R(l, nl, str) ELSE R(l, none, lv)
          [] rule = "lparen" ->
               WithError(l.inParen, "nested parenthesis",
                         R([l EXCEPT !.inParen = TRUE], none, lv))
          [] rule = "rparen" ->
               WithError(~l.inParen, "enexpected \")\"",
                         R([l EXCEPT !.inParen = FALSE], nl, str))
          [] rule = "domain" -> R(l, [t |-> "tDOMAIN_NAME", c |-> 0], str)
          [] rule = "blank_start" -> R(l, [t |-> "tBLANK_START", c |-> 0], str)
          [] rule = "decadic" ->
               IF Overflows(l.buf)
               THEN [R(l, none, str) EXCEPT
                        !.errs = <<[name |-> "", line |-> 0, column |-> 0,
                                    text |-> "invalid number", via |-> "panic"]>>,
                        !.halted = TRUE]
               ELSE R(l, [t |-> "tDECADIC", c |-> 0], str)
          [] rule = "ipv4" ->
               WithError(ip = <<>>, "invalid IP",
                         R(l, [t |-> "tIPV4", c |-> 0], [lv EXCEPT !.ip = ip]))
          [] rule = "hex" ->
               WithError(odd, "expected hex string",
                         R(l, [t |-> "tHEX", c |-> 0],
                           [str EXCEPT !.data = data]))
          [] rule = "hexdash" -> R(l, [t |-> "tHEX", c |-> 0], str)
          [] rule = "abort" ->
               IF l.buf = <<>>
               THEN R(getc(l, 0), [t |-> "char", c |-> l.peek], lv)
               ELSE R(l, [t |-> "ReplacementChar", c |-> 65533], lv)

\* l.Lex(lval): rounds of the automaton until an action sets ret, returns
\* or panics.  evs tells of each round: the byte it began with, inParen
\* before and after, ret and the errors raised.
RECURSIVE Lex(_)
Lex(l) ==
    LET l0 == [l EXCEPT !.buf = <<>>]
        m  == Match(l0)
        a  == Advance(l0, m.n)
        x  == Action(a.l, m.rule)
        ev == [c |-> l.peek, paren |-> l.inParen, parenAfter |-> x.l.inParen,
               ret |-> x.ret, errs |-> x.errs, halted |-> x.halted]
        p  == a.path \o (IF m.rule = "abort" /\ m.n = 0
                         THEN <<[line |-> x.l.line, column |-> x.l.column,
                                 peek |-> x.l.peek]>>
                         ELSE <<>>)
    IN  IF x.halted \/ x.ret.t # "none"
        THEN [l |-> x.l, ret |-> x.ret, lval |-> x.lval,
              halted |-> x.halted, evs |-> <<ev>>, path |-> p]
        ELSE [Lex(x.l) EXCEPT !.evs = <<ev>> \o @, !.path = p \o @]

\* The sources lexed, each with the start condition the parser has set:
\* every text of up to MaxSrcLen bytes out of newline, blank, "(", ")", "@",
\* and texts with names, numbers, addresses and hex runs.
LexSources ==
    {[sc |-> "INITIAL", src |-> t] :
        t \in SeqsUpTo({10, 32, 40, 41, 64}, MaxSrcLen)}
    \cup {[sc |-> "INITIAL", src |-> t] :
            t \in {<<102, 111, 111, 32, 40, 32, 49, 48, 10, 32, 50, 48, 32, 41, 10>>,
                   <<97, 46, 98, 46, 32, 99, 10>>,
                   <<97, 45, 32, 98>>}}
    \cup {[sc |-> "num", src |-> t] :
            t \in {<<55, 32>>, <<49, 56, 52, 52, 54, 55, 52, 52, 48, 55, 51, 55, 48, 57, 53, 53, 49, 54, 49, 53>>,
                   <<49, 56, 52, 52, 54, 55, 52, 52, 48, 55, 51, 55, 48, 57, 53, 53, 49, 54, 49, 54>>,
                   <<48, 48, 57, 57, 57, 57, 57, 57, 57, 57, 57, 57, 57, 57, 57, 57, 57, 57, 57, 57, 57, 57, 32>>,
                   <<40, 32, 49, 48, 10, 50, 48, 32, 41, 32, 41>>}}
    \cup {[sc |-> "ipv4", src |-> t] :
            t \in {<<49, 57, 50, 46, 48, 46, 50, 46, 49, 10>>, <<57, 57, 57, 46, 48, 46, 50, 46, 49, 32, 57, 46, 57, 46, 57, 46, 57>>,
                   <<57, 46, 57, 32>>, <<57, 46, 57, 46, 57, 46, 57, 57, 57, 57>>}}
    \cup {[sc |-> "hex", src |-> t] :
            t \in {<<57>>, <<57, 102>>, <<65, 98, 67, 32, 100, 48>>, <<45>>, <<40, 32, 48, 97, 10, 41>>}}

\* The sources included.
IncludeSources == {<<>>, <<64, 10>>, <<40>>}

\* The last thing done with the lexer stopped it: Lex panicked or gave the
\* end-of-input token.
Stopped ==
    /\ calls # <<>>
    /\ \/ Last(calls).halted
       \/ Last(calls).ret = [t |-> "char", c |-> 0]

\* Where the lexer is: the source, the position, whether a parent waits.
Where(l) ==
    [name |-> l.name, line |-> l.line, column |-> l.column,
     nested |-> l.prev # <<>>]

\* the parser calls l.Lex(lval)
LexOp ==
    /\ ~Stopped
    /\ LET x == Lex(lx)
       IN  /\ lx' = x.l
           /\ calls' = Append(calls, [x EXCEPT !.l = Where(x.l)]
                                     @@ [op |-> "Lex", before |-> Where(lx)])
    /\ UNCHANGED <<codecVars, equalVars, setVars>>

\* l.include(name, source) between two calls of Lex
IncludeOp ==
    \E source \in IncludeSources :
        /\ ~Stopped
        /\ Cardinality({i \in DOMAIN calls : calls[i].op = "include"})
               < MaxIncludes
        /\ lx' = include(lx, "inc", source)
        /\ calls' = Append(calls,
                      [op |-> "include", before |-> Where(lx), l |-> Where(lx'),
                       ret |-> [t |-> "none", c |-> -1],
                       lval |-> [str |-> <<>>, ip |-> <<>>, data |-> <<>>],
                       halted |-> FALSE, evs |-> <<>>,
                       path |-> <<[line |-> lx'.line, column |-> lx'.column,
                                   peek |-> lx'.peek]>>])
        /\ UNCHANGED <<codecVars, equalVars, setVars>>

InitLex ==
    /\ \E s \in LexSources, h \in {"nil", "true", "false"} :
          lx = [newLex("zone", s.src, h) EXCEPT !.startCond = s.sc]
    /\ calls = <<>>
    /\ InitIdleCodec /\ InitIdleEqual /\ InitIdleSet

NextLex == LexOp \/ IncludeOp

\* The parser's calls of Lex on a source, with sources included on the way.
SpecLex == InitLex /\ [][NextLex]_vars

---------------------------------------------------------------------------
(* Claims about the codec.                                                 *)

\* The i-th record written.
Rec(i) == RRTable[sent[i].id]

\* The RDLENGTH field of the i-th record written, read back big-endian.
LengthField(i) ==
    wb.Buf[sent[i].rdstart - 1] * 256 + wb.Buf[sent[i].rdstart]

\* The number of bytes the variant's Encode appended for the i-th record.
RDataBytes(i) == sent[i].end - sent[i].rdstart

\* A value the wire layout of its variant can carry: the variant is the one
\* the type selects, addresses narrow to 4 / 16 bytes, DNSKEY key and RRSIG
\* signature hold at least one byte, a DS carries a 20-byte SHA-1 digest, a
\* salt fits its one-byte length, a TXT string fits the one character
\* string it is written as, and the RDATA fits the 16-bit RDLENGTH.
LegalRData(d) ==
    CASE d.k = "A"          -> To4(d.Address) # <<>>
      [] d.k = "AAAA"       -> To16(d.Address) # <<>>
      [] d.k = "DNSKEY"     -> Len(d.Key) >= 1
      [] d.k = "RRSIG"      -> Len(d.Signature) >= 1
      [] d.k = "DS"         -> d.DigestType = HashAlgorithmSHA1 /\ Len(d.Digest) = 20
      [] d.k = "NSEC3PARAM" -> Len(d.Salt) <= 255
      [] d.k = "NSEC3"      -> Len(d.Salt) <= 255
      [] d.k = "TXT"        -> Len(d.S) <= 255
      [] OTHER              -> TRUE

Legal(i) ==
    /\ Rec(i).RData.k = VariantOf(Rec(i).Type)
    /\ LegalRData(Rec(i).RData)
    /\ RDataBytes(i) <= 65535

\* Field-for-field equality of two RDATA values; an address field is equal
\* when it is the same IP address (IPv4 addresses have a 4-byte and a
\* 16-byte form).
SameRData(x, y) ==
    IF x.k \in {"A", "AAAA"}
    THEN y.k = x.k /\ To16(x.Address) = To16(y.Address)
    ELSE x = y

SameRR(x, y) ==
    /\ x.Name = y.Name /\ x.Type = y.Type /\ x.Class = y.Class /\ x.TTL = y.TTL
    /\ SameRData(x.RData, y.RData)

C2_UnknownTypePassThrough ==
    \A i \in DOMAIN got :
        VariantOf(Rec(i).Type) = "RDATA" /\ Rec(i).RData.k = "RDATA"
        => /\ got[i].err = ""
           /\ got[i].v.RData.k = "RDATA"
           /\ Len(got[i].v.RData.Bytes) = got[i].rdlength
           /\ got[i].v.RData.Bytes = Rec(i).RData.Bytes

\* C3: the variant's Decode is handed a slice ending exactly at the end of
\* the record's RDATA, so with records back to back in one buffer a decoded
\* record is what it would be with nothing after it, and the cursor never
\* passes the record's end.
C3_ViewEndsAtRData ==
    \A i \in DOMAIN got :
        got[i].err = ""
        => /\ got[i].viewlen = got[i].rdstart + got[i].rdlength
           /\ got[i].viewlen = sent[i].end
           /\ got[i].pos <= sent[i].end
           /\ SameRR(got[i].v, Rec(i))
           /\ LET alone == RRDecode(SubSeq(wb.Buf, 1, sent[i].end),
                                    sent[i].start)
              IN  alone.err = "" /\ alone.v = got[i].v /\ alone.pos = got[i].pos

\* C3 witness: an NSEC3 record, whose TypeBitMaps take the rest of the
\* slice, was decoded from a buffer that holds another record after it.
C3_Witness ==
    /\ Len(sent) >= 2
    /\ got # <<>>
    /\ Rec(1) = rNSEC3
    /\ got[1].buflen > sent[1].end
    /\ got[1].err = ""
    /\ got[1].v.RData.TypeBitMaps = rNSEC3.RData.TypeBitMaps

\* C4: after RR.Encode the two bytes after the TTL hold the number of bytes
\* the variant's Encode appended, whatever the size of the RDATA.
C4_LengthIsByteCount ==
    \A i \in DOMAIN sent : LengthField(i) = RDataBytes(i)


---------------------------------------------------------------------------
(* Claims about RR.Equal.                                                  *)

SameLetter(c, d) ==
    \/ c = d
    \/ c \in 65..90 /\ d = c + 32
    \/ d \in 65..90 /\ c = d + 32

\* Two names differ at most in the case of their letters.
NameCI(x, y) ==
    /\ Len(x) = Len(y)
    /\ \A i \in DOMAIN x :
          /\ Len(x[i]) = Len(y[i])
          /\ \A j \in DOMAIN x[i] : SameLetter(x[i][j], y[i][j])

NameFields(k) ==
    CASE k = "CNAME" -> {"Name"}
      [] k = "MX"    -> {"Exchange"}
      [] k = "NS"    -> {"NSDName"}
      [] k = "PTR"   -> {"PTRDName"}
      [] k = "RRSIG" -> {"Name"}
      [] k = "SOA"   -> {"MName", "RName"}
      [] OTHER       -> {}

\* Every field of the two RDATA values matches: names case-insensitively,
\* addresses as IP addresses, everything else exactly.
FieldsMatch(x, y) ==
    /\ x.k = y.k
    /\ \A f \in DOMAIN x :
          IF f \in NameFields(x.k) THEN NameCI(x[f], y[f])
          ELSE IF f = "Address" THEN To16(x[f]) = To16(y[f])
          ELSE x[f] = y[f]

\* Two records differ at most in the letter case of their names.
DifferOnlyInCase(a, b) ==
    /\ a.Type = b.Type /\ a.Class = b.Class /\ a.TTL = b.TTL
    /\ NameCI(a.Name, b.Name)
    /\ a.RData.k = b.RData.k
    /\ \A f \in DOMAIN a.RData :
          IF f \in NameFields(a.RData.k) THEN NameCI(a.RData[f], b.RData[f])
          ELSE a.RData[f] = b.RData[f]

\* C5: Equal is false whenever Type or Class differ or the owner names
\* differ other than in letter case, and true for two records that differ
\* only in the letter case of Name and of the name-valued RDATA fields.
C5_EqualIgnoresCase ==
    eres # "none"
    => /\ (ea.Type # eb.Type \/ ea.Class # eb.Class \/ ~NameCI(ea.Name, eb.Name))
          => eres = "false"
       /\ DifferOnlyInCase(ea, eb) => eres = "true"

\* C5 witness: two SOA records whose MName and RName differ in case were
\* compared and found Equal.
C5_Witness ==
    /\ eres = "true"
    /\ ea.RData.k = "SOA"
    /\ ea.RData.MName # eb.RData.MName
    /\ ea.RData.RName # eb.RData.RName
    /\ DifferOnlyInCase(ea, eb)

\* C6: Equal is true only if every field of the two RDATA values matches,
\* for each variant, all nine fields of RRSIG included.
C6_EqualOnlyIfFieldsMatch ==
    eres = "true" => FieldsMatch(ea.RData, eb.RData)

---------------------------------------------------------------------------
(* Claims about record sets.                                               *)

NoTwoEqual(s) ==
    \A i, j \in DOMAIN s : i # j => Equal(s[i], s[j]) # "true"

\* The records of s, from position i on, that have no Equal record earlier
\* in s.
RECURSIVE FirstSeenFrom(_, _)
FirstSeenFrom(s, i) ==
    IF i > Len(s) THEN <<>>
    ELSE (IF \A j \in 1..(i - 1) : Equal(s[j], s[i]) # "true"
          THEN <<s[i]>> ELSE <<>>) \o FirstSeenFrom(s, i + 1)

OfType(s, t) ==
    LET IsT(v) == v.Type = t
    IN  SelectSeq(s, IsT)

Count(s, v) == Cardinality({i \in DOMAIN s : s[i] = v})

SameMultiset(s, t) ==
    /\ Len(s) = Len(t)
    /\ \A i \in DOMAIN s : Count(s, s[i]) = Count(t, s[i])

\* C7: after Unique, and after SetAdd on a target without Equal pairs, no
\* two elements at different positions of the set are Equal, whatever the
\* incoming records.
C7_NoEqualPairs ==
    /\ res.op = "Unique" => NoTwoEqual(r)
    /\ res.op = "SetAdd" /\ NoTwoEqual(res.before) => NoTwoEqual(r)

\* C7 witness: SetAdd took one of two Equal incoming records into a target
\* without Equal pairs.
C7_Witness ==
    /\ res.op = "SetAdd"
    /\ res.before # <<>>
    /\ NoTwoEqual(res.before)
    /\ Len(res.arg) = 2
    /\ res.arg[1] # res.arg[2]
    /\ Equal(res.arg[1], res.arg[2]) = "true"
    /\ Len(r) = Len(res.before) + 1

\* C8: Unique is idempotent, never lengthens the set and keeps, in order,
\* exactly the records without an Equal record earlier in the set; and
\* S.SetAdd(S) leaves S as it was.
C8_SetAlgebra ==
    /\ res.op = "Unique"
       => /\ Unique(r) = r
          /\ Len(r) <= Len(res.before)
          /\ r = FirstSeenFrom(res.before, 1)
    /\ res.op = "SetAddSelf"
       => /\ Len(r) = Len(res.before)
          /\ r = res.before

\* C8 witness: Unique dropped a record from the middle of a set and kept
\* the records around it in order.
C8_Witness ==
    /\ res.op = "Unique"
    /\ Len(res.before) = 3
    /\ Len(r) = 2
    /\ r = <<res.before[1], res.before[3]>>

\* C9: Partition(S, false) maps each Type occurring in S to the records of
\* S of that Type in their order, Join of it is a permutation of S, and
\* with unique == true every part has no two Equal records.
C9_PartitionJoin ==
    /\ res.op = "Partition"
       => /\ DOMAIN res.parts = {r[i].Type : i \in DOMAIN r}
          /\ ~res.unique
             => \A t \in DOMAIN res.parts : res.parts[t] = OfType(r, t)
          /\ res.unique
             => \A t \in DOMAIN res.parts :
                   /\ NoTwoEqual(res.parts[t])
                   /\ res.parts[t] = FirstSeenFrom(OfType(r, t), 1)
    /\ res.op = "Join" /\ ~res.unique => SameMultiset(res.out, r)

\* C9 witness: a set with two types interleaved was partitioned and joined
\* back in an order other than the original.
C9_Witness ==
    /\ res.op = "Join"
    /\ ~res.unique
    /\ Cardinality(DOMAIN res.parts) = 2
    /\ Len(r) = 3
    /\ res.out # r
    /\ SameMultiset(res.out, r)

\* C10: Parts.SetAdd(b) on a partition whose parts have no two Equal
\* records leaves every part without Equal pairs, for every partition b.
C10_PartsSetAddKeepsUnique ==
    res.op = "PartsSetAdd" /\ (\A t \in DOMAIN res.before : NoTwoEqual(res.before[t]))
    => \A t \in DOMAIN res.parts : NoTwoEqual(res.parts[t])


---------------------------------------------------------------------------
(* Claims about Decode on buffers that end early.                          *)

\* C11: RRSIG.Decode gives "no signature data" exactly when nothing is left
\* after the signer name, DNSKEY.Decode gives "no key data" exactly when
\* nothing is left after Flags, Protocol and Algorithm; otherwise, the
\* fixed fields being readable, the tail field takes all the bytes left
\* and the cursor ends at the end of the buffer.
C11_TailOrNoData ==
    \A i \in DOMAIN got :
        LET g == got[i]
            b == wb.Buf
        IN  /\ g.op = "variant" /\ g.kind = "RRSIG" /\ g.start + 18 <= Len(b)
               => LET nm == DomainNameDecode(b, g.start + 18, <<>>)
                  IN  nm.err = ""
                      => IF nm.pos = Len(b)
                         THEN g.err = "(*RRSIG).Decode: no signature data"
                         ELSE /\ g.err = ""
                              /\ g.v.Signature = Slice(b, nm.pos, Len(b))
                              /\ g.pos = Len(b)
            /\ g.op = "variant" /\ g.kind = "DNSKEY" /\ g.start + 4 <= Len(b)
               => IF g.start + 4 = Len(b)
                  THEN g.err = "(*DNSKEY).Decode: no key data"
                  ELSE /\ g.err = ""
                       /\ g.v.Key = Slice(b, g.start + 4, Len(b))
                       /\ g.pos = Len(b)

\* C11 witness: an RRSIG whose buffer ends right after the signer name was
\* decoded from offset 1 and refused for want of signature data.
C11_Witness ==
    /\ got # <<>>
    /\ got[1].op = "variant"
    /\ got[1].kind = "RRSIG"
    /\ got[1].start = 1
    /\ got[1].pos = Len(wb.Buf)
    /\ got[1].v.Name = rRRSIG.RData.Name
    /\ got[1].err = "(*RRSIG).Decode: no signature data"


\* C12: DS.Decode fails for every digest type other than SHA-1 and for a
\* SHA-1 digest with fewer than 20 bytes left; when it succeeds, Digest is
\* the 20 bytes after the fixed fields and the cursor has moved by 24.
C12_DSDigest ==
    \A i \in DOMAIN got :
        LET g == got[i]
            b == wb.Buf
        IN  g.op = "variant" /\ g.kind = "DS"
            => /\ g.start + 4 <= Len(b) /\ b[g.start + 4] # 1 => g.err # ""
               /\ g.start + 4 <= Len(b) /\ Len(b) - (g.start + 4) < 20
                  => g.err # ""
               /\ g.err = ""
                  => /\ Len(g.v.Digest) = 20
                     /\ g.v.Digest = Slice(b, g.start + 4, g.start + 24)
                     /\ g.pos = g.start + 24

\* C12 witness: a DS with digest type 2 and a digest after it was refused.
C12_Witness ==
    /\ got # <<>>
    /\ got[1].op = "variant"
    /\ got[1].kind = "DS"
    /\ got[1].v.DigestType = 2
    /\ Len(wb.Buf) - got[1].start >= 24
    /\ got[1].err = "unsupported digest type"


---------------------------------------------------------------------------
(* Claims about the address variants.                                      *)

\* C13: A.Encode appends exactly 4 bytes and AAAA.Encode exactly 16 for
\* every stored Address, or the encoding fails when the address cannot be
\* narrowed to that width; for 192.0.2.1 A.Encode appends C0 00 02 01.
C13_AddressWidth ==
    \A i \in DOMAIN sent :
        /\ Rec(i).RData.k = "A" => RDataBytes(i) = 4 \/ Panicked(wb)
        /\ Rec(i).RData.k = "AAAA" => RDataBytes(i) = 16 \/ Panicked(wb)
        /\ Rec(i) = rA
           => SubSeq(wb.Buf, sent[i].rdstart + 1, sent[i].end) = <<192, 0, 2, 1>>


\* C18: SOA.Decode returns an error whenever one of Serial, Refresh, Retry,
\* Expire and Minimum cannot be read whole from the bytes after the two
\* names; a success has read all five.
C18_SOAFieldsOrError ==
    \A i \in DOMAIN got :
        LET g  == got[i]
            b  == wb.Buf
            n1 == DomainNameDecode(b, g.start, <<>>)
            n2 == DomainNameDecode(b, n1.pos, <<>>)
            At(k) == U32(b[n2.pos + 4 * k + 1] * 256 + b[n2.pos + 4 * k + 2],
                         b[n2.pos + 4 * k + 3] * 256 + b[n2.pos + 4 * k + 4])
        IN  g.op = "variant" /\ g.kind = "SOA" /\ n1.err = "" /\ n2.err = ""
            => /\ Len(b) - n2.pos < 20 => g.err # ""
               /\ g.err = ""
                  => /\ g.pos = n2.pos + 20
                     /\ g.v.Serial = At(0) /\ g.v.Refresh = At(1)
                     /\ g.v.Retry = At(2) /\ g.v.Expire = At(3)
                     /\ g.v.Minimum = At(4)

\* C18 witness: an SOA whose buffer ends inside Retry, after Serial and
\* Refresh, was refused.
C18_Witness ==
    /\ got # <<>>
    /\ got[1].op = "variant"
    /\ got[1].kind = "SOA"
    /\ got[1].v.MName = rSOA.RData.MName
    /\ got[1].v.RName = rSOA.RData.RName
    /\ got[1].v.Refresh = rSOA.RData.Refresh
    /\ Len(wb.Buf) = got[1].pos + 2
    /\ got[1].err # ""


\* C19: when the RDLENGTH read is larger than the number of bytes left in
\* the buffer after the header, RR.Decode returns a decode error, for every
\* record type; it neither succeeds nor crashes.
C19_LengthPastBufferIsError ==
    \A i \in DOMAIN got :
        got[i].op = "RR" /\ got[i].rdlength >= 0
        /\ got[i].rdlength > got[i].buflen - got[i].rdstart
        => got[i].err \notin {"", "panic: slice bounds out of range"}


---------------------------------------------------------------------------
(* Claims about the lexer.                                                 *)

\* C14: in every round of every Lex call: a newline read with inParen set
\* gives no token and leaves the flag; a newline read with inParen clear
\* gives the end-of-record token '\n'; "(" raises "nested parenthesis"
\* exactly when the flag was set and sets the flag; ")" raises an error
\* exactly when the flag was clear, clears the flag and gives the
\* end-of-record token (the action does not go on when Error ends the parse
\* with a panic).  Lexing foo ( 10\n 20 )\n with nothing included, the first
\* end-of-record token is the one of ")".
C14_ParenNewline ==
    LET nl == [t |-> "char", c |-> 10]
        lexOnly == \A i \in DOMAIN calls : calls[i].op = "Lex"
    IN  /\ \A i \in DOMAIN calls : \A k \in DOMAIN calls[i].evs :
              LET e == calls[i].evs[k]
                  texts == {e.errs[j].text : j \in DOMAIN e.errs}
              IN  /\ (e.c = 10 /\ e.paren) =>
                         e.ret.t = "none" /\ e.parenAfter /\ texts = {}
                  /\ (e.c = 10 /\ ~e.paren) =>
                         e.ret = nl /\ ~e.parenAfter /\ texts = {}
                  /\ e.c = 40 =>
                         /\ texts = IF e.paren THEN {"nested parenthesis"}
                                    ELSE {}
                         /\ ~e.halted => e.parenAfter /\ e.ret.t = "none"
                  /\ e.c = 41 =>
                         /\ (texts # {}) <=> ~e.paren
                         /\ ~e.halted => ~e.parenAfter /\ e.ret = nl
        /\ (calls # <<>> /\ lexOnly /\ calls[1].lval.str = <<102, 111, 111>>) =>
              \A i \in DOMAIN calls :
                  (calls[i].ret = nl /\ \A j \in 1..(i - 1) : calls[j].ret # nl)
                      => Last(calls[i].evs).c = 41

\* C14 witness: foo ( 10\n 20 )\n lexed to its end: a newline swallowed
\* inside the parentheses, then the end-of-record token of ")", then the
\* one of the last newline.
C14_Witness ==
    LET nl == [t |-> "char", c |-> 10]
    IN  /\ calls # <<>>
        /\ calls[1].lval.str = <<102, 111, 111>>
        /\ \A i \in DOMAIN calls : calls[i].op = "Lex"
        /\ Last(calls).ret = [t |-> "char", c |-> 0]
        /\ \E i \in DOMAIN calls :
              /\ calls[i].ret = nl
              /\ Last(calls[i].evs).c = 41
              /\ \E j \in 1..i : \E k \in DOMAIN calls[j].evs :
                    calls[j].evs[k].c = 10 /\ calls[j].evs[k].paren
              /\ \A j \in 1..(i - 1) : calls[j].ret # nl
              /\ calls[i + 1].ret = nl
              /\ Last(calls[i + 1].evs).c = 10


\* C15: whenever a rule calls l.Error: with a callback that answers true
\* Error returns and the rule runs to its end ("(" sets inParen, ")" clears
\* it and gives '\n', the address and hex rules give their token); with no
\* callback or one that answers false the call of Lex ends there in a panic
\* that carries the message with the source name, line and column, Lex
\* returns no token and no later call is made.
C15_ErrorContinuesIffCallbackTrue ==
    \A i \in DOMAIN calls : \A k \in DOMAIN calls[i].evs :
        LET e == calls[i].evs[k]
        IN  (e.errs # <<>> /\ e.errs[1].via = "Error") =>
               /\ Len(e.errs) = 1
               /\ e.errs[1].name = calls[i].l.name
               /\ e.errs[1].line <= calls[i].l.line
               /\ IF lx.errHandler = "true"
                  THEN /\ ~e.halted
                       /\ e.c = 40 => e.parenAfter
                       /\ e.c = 41 => ~e.parenAfter
                                      /\ e.ret = [t |-> "char", c |-> 10]
                       /\ e.c \notin {40, 41} => e.ret.t \in {"tIPV4", "tHEX"}
                  ELSE /\ e.halted /\ calls[i].halted
                       /\ k = Len(calls[i].evs)
                       /\ calls[i].ret.t = "none"
                       /\ i = Len(calls)
                       /\ ~ENABLED LexOp

\* C15 witness: an error raised in one call of Lex, the callback answered
\* true, and a later call of Lex gave a token.
C15_Witness ==
    /\ lx.errHandler = "true"
    /\ \E i \in DOMAIN calls :
          /\ \E k \in DOMAIN calls[i].evs :
                /\ calls[i].evs[k].errs # <<>>
                /\ calls[i].evs[k].errs[1].via = "Error"
          /\ calls[i].ret.t # "none"
          /\ i < Len(calls)
          /\ Last(calls).op = "Lex"
          /\ Last(calls).ret.t # "none"


\* C16: a call of Lex gives the end-of-input token (0) only when no parent
\* source waits: the included source exhausted, the lexer has gone back to
\* the parent (prev is nil again) and the parent's bytes have been lexed.
C16_EndOfInputOnlyAtOutermost ==
    \A i \in DOMAIN calls :
        (calls[i].op = "Lex" /\ calls[i].ret = [t |-> "char", c |-> 0]) =>
            ~calls[i].l.nested


\* C17 as stated: in a call of Lex no getc makes the line or the column
\* smaller than it was.
C17_PositionNeverDecreases ==
    \A i \in DOMAIN calls :
        calls[i].op = "Lex" =>
            LET ps == <<calls[i].before>> \o calls[i].path
            IN  \A k \in 1..(Len(ps) - 1) :
                    /\ ps[k + 1].line >= ps[k].line
                    /\ ps[k + 1].column >= ps[k].column

\* C17 corrected: each getc of a call of Lex either adds one to the column
\* and keeps the line (a byte other than newline), or adds one to the line
\* and sets the column to 0 (a newline), or keeps both (end of the source);
\* so the line never decreases and the column falls only to 0 at a newline.
\* Nothing else moves the position between calls, and include alone sets
\* the line back: to line 1, column 0, from where its getc reads the first
\* byte of the included source.
C17_LineMonotoneColumnResets ==
    \A i \in DOMAIN calls :
        LET ps == <<calls[i].before>> \o calls[i].path
        IN  /\ i > 1 => calls[i].before = calls[i - 1].l
            /\ Last(ps).line = calls[i].l.line
            /\ Last(ps).column = calls[i].l.column
            /\ calls[i].op = "Lex" =>
                  \A k \in 1..(Len(ps) - 1) :
                      /\ ps[k + 1].peek \notin {0, 10} =>
                             /\ ps[k + 1].line = ps[k].line
                             /\ ps[k + 1].column = ps[k].column + 1
                      /\ ps[k + 1].peek = 10 =>
                             /\ ps[k + 1].line = ps[k].line + 1
                             /\ ps[k + 1].column = 0
                      /\ ps[k + 1].peek = 0 =>
                             /\ ps[k + 1].line = ps[k].line
                             /\ ps[k + 1].column = ps[k].column
            /\ calls[i].op = "include" =>
                  /\ calls[i].l.nested
                  /\ <<calls[i].l.line, calls[i].l.column>> =
                         CASE calls[i].path[1].peek = 0 -> <<1, 0>>
                           [] calls[i].path[1].peek = 10 -> <<2, 0>>
                           [] OTHER -> <<1, 1>>

\* C17 witness: a getc of a Lex call that read a newline took the column
\* from above 0 back to 0, and a later include took the line from above 1
\* back to 1.
C17_Witness ==
    \E i, j \in DOMAIN calls :
        /\ i < j
        /\ calls[i].op = "Lex"
        /\ LET ps == <<calls[i].before>> \o calls[i].path
           IN  \E k \in 1..(Len(ps) - 1) :
                   /\ ps[k].column > 0
                   /\ ps[k + 1].column = 0
                   /\ ps[k + 1].line = ps[k].line + 1
        /\ calls[j].op = "include"
        /\ calls[j].before.line > 1
        /\ calls[j].l.line = 1


\* C20: every error a call of Lex raises goes through l.Error (it carries
\* the name, line and column of the source and is offered to the callback),
\* and no tIPV4 token is returned with an address that failed to parse, no
\* tDECADIC token with a number that failed to parse.
C20_ErrorsReportedPayloadsParsed ==
    \A i \in DOMAIN calls :
        /\ \A k \in DOMAIN calls[i].evs :
              \A j \in DOMAIN calls[i].evs[k].errs :
                  LET err == calls[i].evs[k].errs[j]
                  IN  /\ err.via = "Error"
                      /\ err.name = calls[i].l.name
                      /\ err.line >= 1
        /\ calls[i].ret.t = "tIPV4" => calls[i].lval.ip # <<>>
        /\ calls[i].ret.t = "tDECADIC" => ~Overflows(calls[i].lval.str)


---------------------------------------------------------------------------
(* Claim about the cursor after RR.Decode.                                 *)

\* C21: after every RR.Decode that returns no error the cursor is the
\* position just after the RDLENGTH field plus RDLENGTH, so the next
\* RR.Decode starts at the first byte of the next record.
C21_CursorAfterRData ==
    \A i \in DOMAIN got :
        (got[i].op = "RR" /\ got[i].err = "") =>
            /\ got[i].pos = got[i].rdstart + got[i].rdlength
            /\ i < Len(got) => got[i + 1].start = got[i].pos

===========================================================================
